---- MODULE Spec2Model ----
(***************************************************************************)
(* A model of step2.py (process_alternate_titles and its helpers): the     *)
(* reconciliation of the Jotform intake table with the Curve workbook.     *)
(*                                                                         *)
(* Text is a sequence of one-character strings, so that the string         *)
(* operations of the code (strip, lower, upper, substring search, regular  *)
(* expressions) are computed on the characters.  A cell value is a         *)
(* record [t, n, s]: t is the Python type, n the number, s the text.  A   *)
(* float is held in units of 1/200 (two decimal places, and one halving).  *)
(***************************************************************************)
EXTENDS Integers, Sequences, FiniteSets, TLC

VARIABLES
    pc,              \* position in process_alternate_titles
    jot,             \* the intake DataFrame: [cols, rows]
    curve,           \* the Curve file as uploaded: a sequence of sheets [name, rows]
    wb,              \* the workbook once loaded, as the run changes it
    jcols,           \* jot_title_col, jot_eep_col, jot_alt_col, jot_writer_total_col
    idx,             \* position of the iterrows loop
    jot_row_lookup,  \* sequence of [k, row]: the dict, in insertion order
    jot_alt_lookup,  \* sequence of [k, alts]
    ws,              \* ws_works, ws_alt, ws_ip: positions in wb
    hdr,             \* works_headers, alt_headers, ip_headers, the works columns, participant_cols
    write_row_alt,
    write_row_ip,
    r,               \* the work row of the processing loop
    cur,             \* what the loop holds for row r
    result,          \* what the function returns
    log,             \* history: the rows emitted, in order
    fx               \* a helper function under test: [fn, arg, out]

vars == <<pc, jot, curve, wb, jcols, idx, jot_row_lookup, jot_alt_lookup, ws, hdr,
          write_row_alt, write_row_ip, r, cur, result, log, fx>>

-----------------------------------------------------------------------------
(* Characters and text *)

UpperChars == <<"A","B","C","D","E","F","G","H","I","J","K","L","M",
                "N","O","P","Q","R","S","T","U","V","W","X","Y","Z">>
LowerChars == <<"a","b","c","d","e","f","g","h","i","j","k","l","m",
                "n","o","p","q","r","s","t","u","v","w","x","y","z">>
DigitChars == <<"0","1","2","3","4","5","6","7","8","9">>

RangeOf(f) == {f[i] : i \in DOMAIN f}
PosIn(f, c) == CHOOSE i \in DOMAIN f : f[i] = c

SpaceSet == {" ", "\t", "\n", "\r"}
DigitSet == RangeOf(DigitChars)
UpperSet == RangeOf(UpperChars)
LowerSet == RangeOf(LowerChars)
ToLower == [c \in UpperSet |-> LowerChars[PosIn(UpperChars, c)]]
ToUpper == [c \in LowerSet |-> UpperChars[PosIn(LowerChars, c)]]
ToDigit == [c \in DigitSet |-> PosIn(DigitChars, c) - 1]

IsSpace(c) == c \in SpaceSet
IsDigit(c) == c \in DigitSet
IsAlpha(c) == c \in UpperSet \/ c \in LowerSet
DigitVal(c) == ToDigit[c]

LowerChar(c) == IF c \in UpperSet THEN ToLower[c] ELSE c
UpperChar(c) == IF c \in LowerSet THEN ToUpper[c] ELSE c

Lower(s) == [i \in 1..Len(s) |-> LowerChar(s[i])]
Upper(s) == [i \in 1..Len(s) |-> UpperChar(s[i])]

\* s.lstrip(), s.rstrip()
LStrip(s) ==
    IF \A i \in 1..Len(s) : IsSpace(s[i]) THEN <<>>
    ELSE SubSeq(s, CHOOSE i \in 1..Len(s) : ~IsSpace(s[i]) /\ \A j \in 1..(i - 1) : IsSpace(s[j]),
                Len(s))
RStrip(s) ==
    IF \A i \in 1..Len(s) : IsSpace(s[i]) THEN <<>>
    ELSE SubSeq(s, 1, CHOOSE i \in 1..Len(s) :
                          ~IsSpace(s[i]) /\ \A j \in (i + 1)..Len(s) : IsSpace(s[j]))

\* str.strip()
Strip(s) == RStrip(LStrip(s))

StartsRun(p) == ~(p.sp /\ p.after_sp)
\* re.sub(r"\s+", " ", s): each run of whitespace keeps its first place, as a space
CollapseSpaces(s) ==
    LET marked == [i \in 1..Len(s) |->
                      [c |-> IF IsSpace(s[i]) THEN " " ELSE s[i],
                       sp |-> IsSpace(s[i]),
                       after_sp |-> i > 1 /\ IsSpace(s[IF i > 1 THEN i - 1 ELSE 1])]]
        kept == SelectSeq(marked, StartsRun)
    IN [i \in 1..Len(kept) |-> kept[i].c]

\* s.replace(old, "") for a one-character old
RemoveChar(s, old) == LET keep(c) == c # old IN SelectSeq(s, keep)

\* s.replace(old, new) for one-character old and new
MapChar(s, old, new) == [i \in 1..Len(s) |-> IF s[i] = old THEN new ELSE s[i]]

\* kw in s
Contains(s, kw) ==
    \E i \in 0..(Len(s) - Len(kw)) : \A j \in 1..Len(kw) : s[i + j] = kw[j]

AllDigits(s) == \A i \in 1..Len(s) : IsDigit(s[i])

\* re.fullmatch(r"\d+\.0", s)
MatchesIntDotZero(s) ==
    /\ Len(s) >= 3
    /\ s[Len(s)] = "0"
    /\ s[Len(s) - 1] = "."
    /\ AllDigits(SubSeq(s, 1, Len(s) - 2))

RECURSIVE NatStr(_)
NatStr(n) == IF n < 10 THEN <<DigitChars[n + 1]>>
             ELSE NatStr(n \div 10) \o <<DigitChars[(n % 10) + 1]>>

\* str(n) of an int
IntStr(n) == IF n < 0 THEN <<"-">> \o NatStr(0 - n) ELSE NatStr(n)

RECURSIVE NatVal(_)
NatVal(s) == IF s = <<>> THEN 0 ELSE NatVal(SubSeq(s, 1, Len(s) - 1)) * 10 + DigitVal(s[Len(s)])

-----------------------------------------------------------------------------
(* Cell values *)

Unit == 2 * 100          \* a float u stands for u / 200

NoneV == [t |-> "none", n |-> 0, s |-> <<>>]
NaNV == [t |-> "nan", n |-> 0, s |-> <<>>]
IntV(n) == [t |-> "int", n |-> n, s |-> <<>>]
FloatV(u) == [t |-> "float", n |-> u, s |-> <<>>]
StrV(s) == [t |-> "str", n |-> 0, s |-> s]
BoolV(b) == [t |-> "bool", n |-> IF b THEN 1 ELSE 0, s |-> <<>>]

Abs(n) == IF n < 0 THEN 0 - n ELSE n

\* the fractional digits of u / 200, without trailing zeros, at least one
FracStr(u) ==
    LET th == (Abs(u) % Unit) * 5      \* thousandths
        d == <<DigitChars[(th \div 100) + 1], DigitChars[((th \div 10) % 10) + 1],
               DigitChars[(th % 10) + 1]>>
    IN IF th % 100 = 0 THEN SubSeq(d, 1, 1)
       ELSE IF th % 10 = 0 THEN SubSeq(d, 1, 2) ELSE d

\* str(x) of a float
FloatStr(u) == (IF u < 0 THEN <<"-">> ELSE <<>>) \o NatStr(Abs(u) \div Unit) \o <<".">> \o FracStr(u)

\* str(v)
PyStr(v) ==
    CASE v.t = "none" -> <<"N","o","n","e">>
      [] v.t = "nan" -> <<"n","a","n">>
      [] v.t = "int" -> IntStr(v.n)
      [] v.t = "float" -> FloatStr(v.n)
      [] v.t = "bool" -> IF v.n = 1 THEN <<"T","r","u","e">> ELSE <<"F","a","l","s","e">>
      [] OTHER -> v.s

\* bool(v)
Truthy(v) ==
    CASE v.t = "none" -> FALSE
      [] v.t = "nan" -> TRUE
      [] v.t = "str" -> v.s # <<>>
      [] OTHER -> v.n # 0

\* the tail of _norm without its re.sub of whitespace runs
NormTextKeepRuns(s) ==
    LET c == Lower(Strip(s))
    IN IF MatchesIntDotZero(c) THEN SubSeq(c, 1, Len(c) - 2) ELSE c

\* the tail of _norm for a string
NormText(s) ==
    LET c == CollapseSpaces(Lower(Strip(s)))
    IN IF MatchesIntDotZero(c) THEN SubSeq(c, 1, Len(c) - 2) ELSE c

\* _norm
Norm(v) ==
    CASE v.t = "none" -> <<>>
      [] v.t = "nan" -> <<>>
      [] v.t \in {"int", "bool"} -> Lower(Strip(PyStr(v)))
      [] v.t = "float" ->
            IF v.n % Unit = 0 THEN Lower(Strip(IntStr(v.n \div Unit)))
            ELSE Lower(Strip(PyStr(v)))
      [] OTHER -> NormText(v.s)

-----------------------------------------------------------------------------
(* Numbers in text *)

\* the value, in units of 1/200, of the digits ip "." fp (two decimals kept)
DecimalUnits(ip, fp) ==
    LET f2 == SubSeq(fp \o <<"0", "0">>, 1, 2)
    IN NatVal(ip) * Unit + NatVal(f2) * 2

\* the position of the "." of s, or 0
DotPos(s) == IF \E i \in 1..Len(s) : s[i] = "." THEN CHOOSE i \in 1..Len(s) :
                    s[i] = "." /\ \A j \in 1..(i - 1) : s[j] # "."
             ELSE 0

\* digits [ "." digits ], one side at least non-empty
IsDecimal(s) ==
    LET d == DotPos(s)
    IN IF d = 0 THEN s # <<>> /\ AllDigits(s)
       ELSE /\ AllDigits(SubSeq(s, 1, d - 1))
            /\ AllDigits(SubSeq(s, d + 1, Len(s)))
            /\ Len(s) > 1

UnsignedUnits(s) ==
    LET d == DotPos(s)
    IN IF d = 0 THEN DecimalUnits(s, <<>>)
       ELSE DecimalUnits(SubSeq(s, 1, d - 1), SubSeq(s, d + 1, Len(s)))

\* float(s) of a string: [ok, v]; ok is FALSE where Python raises ValueError.
\* The texts of the model hold no exponent, infinity or underscore.
ParseFloat(s0) ==
    LET s == Strip(s0)
        signed == s # <<>> /\ Head(s) \in {"+", "-"}
        body == IF signed THEN Tail(s) ELSE s
        neg == signed /\ Head(s) = "-"
    IN IF Lower(body) = <<"n","a","n">> THEN [ok |-> TRUE, v |-> NaNV]
       ELSE IF IsDecimal(body)
            THEN [ok |-> TRUE, v |-> FloatV(IF neg THEN 0 - UnsignedUnits(body)
                                                   ELSE UnsignedUnits(body))]
            ELSE [ok |-> FALSE, v |-> NoneV]

\* float(v): [ok, v]; ok is FALSE where Python raises
ToFloat(v) ==
    CASE v.t = "none" -> [ok |-> FALSE, v |-> NoneV]
      [] v.t = "nan" -> [ok |-> TRUE, v |-> NaNV]
      [] v.t \in {"int", "bool"} -> [ok |-> TRUE, v |-> FloatV(v.n * Unit)]
      [] v.t = "float" -> [ok |-> TRUE, v |-> v]
      [] OTHER -> ParseFloat(v.s)

\* _parse_percentage
ParsePercentage(val) ==
    IF val.t = "none" THEN FloatV(0)
    ELSE LET f == ToFloat(IF val.t = "str"
                          THEN StrV(Strip(RemoveChar(val.s, "%")))
                          ELSE val)
         IN IF ~f.ok THEN FloatV(0)
            ELSE IF f.v.t = "float" /\ f.v.n <= Unit /\ f.v.n > 0
                 THEN FloatV(f.v.n * 100)
                 ELSE f.v

\* the length of the run of digits that starts s
RECURSIVE DigitRun(_)
DigitRun(s) == IF s # <<>> /\ IsDigit(Head(s)) THEN 1 + DigitRun(Tail(s)) ELSE 0

\* re.search(r"(\d+(\.\d+)?)", s): the text of the first match, <<>> if none
FirstNumberText(s) ==
    IF \A i \in 1..Len(s) : ~IsDigit(s[i]) THEN <<>>
    ELSE LET b == CHOOSE i \in 1..Len(s) :
                      IsDigit(s[i]) /\ \A j \in 1..(i - 1) : ~IsDigit(s[j])
             n == DigitRun(SubSeq(s, b, Len(s)))
             rest == SubSeq(s, b + n, Len(s))
             m == IF rest # <<>> /\ Head(rest) = "." THEN DigitRun(Tail(rest)) ELSE 0
         IN SubSeq(s, b, b + n - 1 + (IF m > 0 THEN m + 1 ELSE 0))

\* _extract_number: a float, or None
ExtractNumber(val) ==
    IF val.t = "none" THEN NoneV
    ELSE LET s == Strip(PyStr(val))
             m == FirstNumberText(s)
         IN IF s = <<>> \/ m = <<>> THEN NoneV ELSE FloatV(UnsignedUnits(m))

\* int(float(v)): [ok, n]; ok is FALSE where Python raises
IntOfFloat(v) ==
    LET f == ToFloat(v)
    IN IF ~f.ok \/ f.v.t # "float" THEN [ok |-> FALSE, n |-> 0]
       ELSE [ok |-> TRUE,
             n |-> IF f.v.n < 0 THEN 0 - ((0 - f.v.n) \div Unit) ELSE f.v.n \div Unit]

\* x * 0.5
Half(v) == IF v.t = "float" THEN FloatV(v.n \div 2) ELSE v

-----------------------------------------------------------------------------
(* Capacity codes, names, titles *)

T_Composer == <<"C","o","m","p","o","s","e","r">>
T_Lyrics == <<"L","y","r","i","c","s">>
T_LyricsAndMusic == <<"L","y","r","i","c","s"," ","a","n","d"," ","M","u","s","i","c">>
T_OriginalPublisher == <<"O","r","i","g","i","n","a","l"," ","P","u","b","l","i","s","h","e","r">>
T_Publisher == <<"P","u","b","l","i","s","h","e","r">>
T_CopyrightControl == <<"C","o","p","y","r","i","g","h","t"," ","C","o","n","t","r","o","l">>
T_ZeroCae == <<"0","0","0","0","0","0","0","0","0","0","0">>
T_EliteFragment == <<"e","l","i","t","e"," ","e","m","b","a","s","s","y"," ",
                     "p","u","b","l","i","s","h","i","n","g">>
T_EmbassiesFragment == <<"m","u","s","i","c"," ","e","m","b","a","s","s","i","e","s"," ",
                         "p","u","b","l","i","s","h","i","n","g">>

\* _map_capacity
MapCapacity(cap_val, is_publisher) ==
    IF ~Truthy(cap_val) THEN <<>>
    ELSE LET s == Upper(Strip(PyStr(cap_val)))
         IN IF is_publisher
            THEN (IF s = <<"O","P">> THEN T_OriginalPublisher ELSE s)
            ELSE IF s = <<"C">> THEN T_Composer
            ELSE IF s = <<"A">> THEN T_Lyrics
            ELSE IF s \in {<<"A","C">>, <<"C","A">>} THEN T_LyricsAndMusic
            ELSE s

\* s.replace("  ", " ")
RECURSIVE ReplaceDoubleSpace(_)
ReplaceDoubleSpace(s) ==
    IF Len(s) < 2 THEN s
    ELSE IF s[1] = " " /\ s[2] = " " THEN <<" ">> \o ReplaceDoubleSpace(SubSeq(s, 3, Len(s)))
    ELSE <<Head(s)>> \o ReplaceDoubleSpace(Tail(s))

\* str(x).strip() if x else ""
StrOrEmpty(v) == IF Truthy(v) THEN Strip(PyStr(v)) ELSE <<>>

\* str.title()
TitleCase(s) ==
    [i \in 1..Len(s) |->
        IF i = 1 \/ ~IsAlpha(s[i - 1]) THEN UpperChar(s[i]) ELSE LowerChar(s[i])]

\* s.split("\n")
RECURSIVE SplitLines(_)
SplitLines(s) ==
    IF \A i \in 1..Len(s) : s[i] # "\n" THEN <<s>>
    ELSE LET p == CHOOSE i \in 1..Len(s) : s[i] = "\n" /\ \A j \in 1..(i - 1) : s[j] # "\n"
         IN <<SubSeq(s, 1, p - 1)>> \o SplitLines(SubSeq(s, p + 1, Len(s)))

\* [a.strip() for a in parts if a.strip()]
RECURSIVE StripNonEmpty(_)
StripNonEmpty(parts) ==
    IF parts = <<>> THEN <<>>
    ELSE (IF Strip(Head(parts)) # <<>> THEN <<Strip(Head(parts))>> ELSE <<>>)
         \o StripNonEmpty(Tail(parts))

\* an alt_list that splits at "\n" alone
AltListNewlineOnly(alt_raw) == StripNonEmpty(SplitLines(alt_raw))

\* the alt_list of an alternate-title cell
AltList(alt_raw) == StripNonEmpty(SplitLines(MapChar(alt_raw, "\r", "\n")))

-----------------------------------------------------------------------------
(* Header resolution *)

\* all(word in text for word in p)
AllWordsIn(text, p) == \A k \in 1..Len(p) : Contains(text, p[k])

\* str(col).strip().upper().replace("'", "")
ColU(col) == RemoveChar(Upper(Strip(col)), "'")

\* the inner loop of _find_jot_col: some pattern from k on matches col_u
RECURSIVE AnyPatternFrom(_, _, _)
AnyPatternFrom(col_u, patterns, k) ==
    IF k > Len(patterns) THEN FALSE
    ELSE IF AllWordsIn(col_u, patterns[k]) THEN TRUE
    ELSE AnyPatternFrom(col_u, patterns, k + 1)

\* the columns of the outer loop of _find_jot_col that some pattern matches
MatchingCols(cols, patterns) ==
    {c \in 1..Len(cols) : AnyPatternFrom(ColU(cols[c]), patterns, 1)}

SetMin(S) == CHOOSE c \in S : \A d \in S : c <= d
SetMax(S) == CHOOSE c \in S : \A d \in S : c >= d

\* a resolver that tries the patterns in order, and the columns under each
RECURSIVE FindJotColByPattern(_, _)
FindJotColByPattern(cols, patterns) ==
    IF patterns = <<>> THEN 0
    ELSE LET hit == MatchingCols(cols, <<Head(patterns)>>)
         IN IF hit # {} THEN SetMin(hit) ELSE FindJotColByPattern(cols, Tail(patterns))

\* _find_jot_col: the first column, in column order, that some pattern matches;
\* a column position, 0 for None
FindJotCol(cols, patterns) ==
    LET hit == MatchingCols(cols, patterns)
    IN IF hit = {} THEN 0 ELSE SetMin(hit)

\* _find_sheet_name, from sheet i on: a sheet position, 0 for None
RECURSIVE FindSheetFrom(_, _, _, _)
FindSheetFrom(names, keywords, exact_match, i) ==
    IF i > Len(names) THEN 0
    ELSE LET name_u == Upper(names[i])
         IN IF exact_match /\ keywords # <<>> /\ name_u = Upper(keywords[1]) THEN i
            ELSE IF ~exact_match /\ \E k \in 1..Len(keywords) : Contains(name_u, keywords[k])
                 THEN i
            ELSE FindSheetFrom(names, keywords, exact_match, i + 1)

\* a sheet finder that takes a name holding the keyword for an exact match
FindSheetNameLoose(names, keywords, exact_match) ==
    FindSheetFrom(names, [k \in 1..Len(keywords) |-> Upper(keywords[k])], FALSE, 1)

\* _find_sheet_name
FindSheetName(names, keywords, exact_match) == FindSheetFrom(names, keywords, exact_match, 1)

\* a dict that keeps the value a key was first given
DictPutFirst(d, k, v) ==
    IF \E i \in 1..Len(d) : d[i].k = k THEN d ELSE Append(d, [k |-> k, v |-> v])

\* d[k] = v on a dict held as a sequence of [k, v] in insertion order
DictPut(d, k, v) ==
    IF \E i \in 1..Len(d) : d[i].k = k
    THEN [i \in 1..Len(d) |-> IF d[i].k = k THEN [k |-> k, v |-> v] ELSE d[i]]
    ELSE Append(d, [k |-> k, v |-> v])

DictHas(d, k) == \E i \in 1..Len(d) : d[i].k = k

\* d.get(k), with what stands for None
DictGet(d, k, none) == IF DictHas(d, k) THEN d[CHOOSE i \in 1..Len(d) : d[i].k = k].v ELSE none

\* The headers dict of a row (lines 66-72).  The dict is held as one slot per
\* column: the slot of column c is live when c is the first column with its key
\* (where the dict inserted the key), and v is the last column with that key
\* (what the later assignments left).  Iterating the dict walks the live slots.
HeaderRow(row) ==
    LET key == [c \in 1..Len(row) |-> Upper(Strip(PyStr(row[c])))]
        set(c) == row[c].t # "none"
    IN [c \in 1..Len(row) |->
          [k |-> key[c],
           live |-> set(c) /\ \A d \in 1..(c - 1) : ~(set(d) /\ key[d] = key[c]),
           v |-> IF set(c) THEN SetMax({d \in c..Len(row) : set(d) /\ key[d] = key[c]}) ELSE 0]]

MAX_HEADER_SEARCH_ROWS == 10

Min(a, b) == IF a < b THEN a ELSE b

\* the row _find_header_map takes the headers from, 0 if none (lines 65-75)
HeaderRowIndex(rows) ==
    LET found == {i \in 1..(Min(Len(rows) + 1, MAX_HEADER_SEARCH_ROWS + 1) - 1) :
                     \E c \in 1..Len(rows[i]) : rows[i][c].t # "none"}
    IN IF found = {} THEN 0 ELSE SetMin(found)

\* headers.get(k), 0 for None
HeaderGet(headers, k) ==
    IF \E i \in 1..Len(headers) : headers[i].live /\ headers[i].k = k
    THEN headers[CHOOSE i \in 1..Len(headers) : headers[i].live /\ headers[i].k = k].v
    ELSE 0

\* the entries of the headers dict that hold all the keywords
HeaderHits(headers, keywords) ==
    {i \in 1..Len(headers) : headers[i].live /\ AllWordsIn(headers[i].k, keywords)}

\* wh(keywords), iph(keywords): the column of the first entry of the dict that holds
\* all the keywords, 0 for None
HeaderFind(headers, keywords) ==
    LET hit == HeaderHits(headers, keywords)
    IN IF hit = {} THEN 0 ELSE headers[SetMin(hit)].v

-----------------------------------------------------------------------------
(* The keywords and labels of step2.py *)

K_TITLE == <<"T","I","T","L","E">>
K_EEP == <<"E","E","P">>
K_MASTER == <<"M","A","S","T","E","R">>
K_CATALOG == <<"C","A","T","A","L","O","G">>
K_NUMBER == <<"N","U","M","B","E","R">>
K_ALTERNATE == <<"A","L","T","E","R","N","A","T","E">>
K_ALT == <<"A","L","T">>
K_WRITER == <<"W","R","I","T","E","R">>
K_TOTAL == <<"T","O","T","A","L">>
K_WRITERS == <<"W","R","I","T","E","R","S">>
K_ELITE == <<"E","L","I","T","E">>
K_EMBASSY == <<"E","M","B","A","S","S","Y">>
K_REPRESENTS == <<"R","E","P","R","E","S","E","N","T","S">>
K_WORK == <<"W","O","R","K">>
K_ID == <<"I","D">>
K_MAIN == <<"M","A","I","N">>
K_IDENTIFIER == <<"I","D","E","N","T","I","F","I","E","R">>
K_TUNECODE == <<"T","U","N","E","C","O","D","E">>
K_FOREIGN == <<"F","O","R","E","I","G","N">>
K_LANGUAGE == <<"L","A","N","G","U","A","G","E">>
K_TERRITORIES == <<"T","E","R","R","I","T","O","R","I","E","S">>
K_TYPE == <<"T","Y","P","E">>
K_NAME == <<"N","A","M","E">>
K_FIRST == <<"F","I","R","S","T">>
K_MIDDLE == <<"M","I","D","D","L","E">>
K_SURNAME == <<"S","U","R","N","A","M","E">>
K_CAE == <<"C","A","E">>
K_CONTROLLED == <<"C","O","N","T","R","O","L","L","E","D">>
K_MECHANICAL == <<"M","E","C","H","A","N","I","C","A","L">>
K_OWNED == <<"O","W","N","E","D">>
K_COLLECTED == <<"C","O","L","L","E","C","T","E","D">>
K_PERFORMANCE == <<"P","E","R","F","O","R","M","A","N","C","E">>
K_CAPACITY == <<"C","A","P","A","C","I","T","Y">>
K_TUNE == <<"T","U","N","E">>
K_TERRITORY == <<"T","E","R","R","I","T","O","R","Y">>
K_LAST == <<"L","A","S","T">>
K_SHARE == <<"S","H","A","R","E">>
K_PERCENT == <<"%">>
K_IP_CHAIN == <<"I","P"," ","C","h","a","i","n">>
K_PARTICIPANT_ == <<"P","A","R","T","I","C","I","P","A","N","T"," ">>
K_COMPOSER_ == <<"C","O","M","P","O","S","E","R"," ">>
K_PUBLISHER_ == <<"P","U","B","L","I","S","H","E","R"," ">>
K_WORK_ID == <<"W","O","R","K"," ","I","D">>
K_WORK_TITLE == <<"W","O","R","K"," ","T","I","T","L","E">>
K_WORK_MAIN_IDENTIFIER ==
    <<"W","O","R","K"," ","M","A","I","N"," ","I","D","E","N","T","I","F","I","E","R">>
K_WORK_TUNECODE == <<"W","O","R","K"," ","T","U","N","E","C","O","D","E">>
K_ALTERNATE_TITLE == <<"A","L","T","E","R","N","A","T","E"," ","T","I","T","L","E">>
K_Y == <<"Y">>

\* f"COMPOSER {i} FIRST" and its like
Indexed(prefix, i, field) == prefix \o IntStr(i) \o <<" ">> \o field

\* the keyword-sets of lines 148-153
TitlePatterns == <<<<K_TITLE>>>>
EepPatterns == <<<<K_EEP, K_MASTER, K_CATALOG, K_NUMBER>>, <<K_EEP, K_CATALOG, K_NUMBER>>>>
AltPatterns == <<<<K_ALTERNATE, K_TITLE>>, <<K_ALT, K_TITLE>>, <<K_ALTERNATE>>>>
WriterTotalPatterns == <<<<K_WRITER, K_TOTAL>>, <<K_TOTAL, K_WRITERS>>>>
EliteSharePatterns == <<<<K_ELITE, K_EMBASSY, K_REPRESENTS, K_PERCENT>>>>

MaxParticipants == 10    \* range(1, 11)
KeptRows == 2            \* rows 1 and 2 of a target sheet are kept

\* row.get(col): col is a column position, 0 for None
RowGet(row, col) == IF col = 0 THEN NoneV ELSE row[col]

\* ws.cell(row, col).value
Cell(rows, row, col) ==
    IF row <= Len(rows) /\ col <= Len(rows[row]) THEN rows[row][col] ELSE NoneV

Max(a, b) == IF a > b THEN a ELSE b
Width(rows) == IF rows = <<>> THEN 0 ELSE Len(rows[1])

\* one write, skipped when the column is None
Put(col, v) == IF col # 0 THEN <<[c |-> col, v |-> v]>> ELSE <<>>

\* the sheet after the writes ws.cell(row, w.c).value = w.v, in order
WriteCells(rows, row, writes) ==
    LET w == Max(Width(rows),
                 IF writes = <<>> THEN 0
                 ELSE CHOOSE m \in {writes[k].c : k \in 1..Len(writes)} :
                         \A k \in 1..Len(writes) : writes[k].c <= m)
        h == Max(Len(rows), row)
        last(c) == CHOOSE k \in 1..Len(writes) :
                      writes[k].c = c /\ \A j \in (k + 1)..Len(writes) : writes[j].c # c
    IN [i \in 1..h |-> [c \in 1..w |->
          IF i = row /\ \E k \in 1..Len(writes) : writes[k].c = c
          THEN writes[last(c)].v ELSE Cell(rows, i, c)]]

\* a sheet left as it is
CleanSheetKeep(rows) == rows

\* ws.delete_rows(3, ws.max_row - 2) under its guard ws.max_row > 2
CleanSheet(rows) == IF Len(rows) > KeptRows THEN SubSeq(rows, 1, KeptRows) ELSE rows

-----------------------------------------------------------------------------
(* The tables the runs are given *)

L_Title == <<"T","i","t","l","e">>
L_EepNumber ==
    <<"E","E","P"," ","M","a","s","t","e","r"," ","C","a","t","a","l","o","g"," ","N",
      "u","m","b","e","r">>
L_AltTitles == <<"A","l","t","e","r","n","a","t","e"," ","T","i","t","l","e","s">>
L_WriterTotal == <<"W","r","i","t","e","r"," ","T","o","t","a","l">>
L_EliteShare ==
    <<"E","l","i","t","e"," ","E","m","b","a","s","s","y"," ","r","e","p","r","e","s",
      "e","n","t","s"," ","%">>
L_Composer_ == <<"C","o","m","p","o","s","e","r"," ">>
L_Publisher_ == <<"P","u","b","l","i","s","h","e","r"," ">>
L_Participant_ == <<"P","a","r","t","i","c","i","p","a","n","t"," ">>
L_FirstName == <<"F","i","r","s","t"," ","N","a","m","e">>
L_MiddleName == <<"M","i","d","d","l","e"," ","N","a","m","e">>
L_LastName == <<"L","a","s","t"," ","N","a","m","e">>
L_Share == <<"S","h","a","r","e">>
L_Capacity == <<"C","a","p","a","c","i","t","y">>
L_Cae == <<"C","A","E">>
L_Controlled == <<"C","o","n","t","r","o","l","l","e","d">>
L_Name == <<"N","a","m","e">>
L_Type == <<"T","y","p","e">>
L_Surname == <<"S","u","r","n","a","m","e">>
L_MechOwned == <<"M","e","c","h","a","n","i","c","a","l"," ","O","w","n","e","d">>
L_MechCollected ==
    <<"M","e","c","h","a","n","i","c","a","l"," ","C","o","l","l","e","c","t","e","d">>
L_PerfOwned == <<"P","e","r","f","o","r","m","a","n","c","e"," ","O","w","n","e","d">>
L_PerfCollected ==
    <<"P","e","r","f","o","r","m","a","n","c","e"," ","C","o","l","l","e","c","t","e",
      "d">>
L_Id == <<"I","D">>
L_MainIdentifier == <<"M","a","i","n"," ","I","d","e","n","t","i","f","i","e","r">>
L_Tunecode == <<"T","u","n","e","c","o","d","e">>
L_ForeignId == <<"F","o","r","e","i","g","n"," ","I","D">>
L_Language == <<"L","a","n","g","u","a","g","e">>
L_Territories == <<"T","e","r","r","i","t","o","r","i","e","s">>
L_WorkId == <<"W","o","r","k"," ","I","D">>
L_WorkTitle == <<"W","o","r","k"," ","T","i","t","l","e">>
L_WorkMainIdentifier ==
    <<"W","o","r","k"," ","M","a","i","n"," ","I","d","e","n","t","i","f","i","e","r">>
L_WorkTunecode == <<"W","o","r","k"," ","T","u","n","e","c","o","d","e">>
L_AlternateTitle == <<"A","l","t","e","r","n","a","t","e"," ","T","i","t","l","e">>
L_Territory == <<"T","e","r","r","i","t","o","r","y">>
L_Works == <<"W","o","r","k","s">>
L_SheetAlt == <<"A","l","t","e","r","n","a","t","e"," ","T","i","t","l","e","s">>
L_SheetIp == <<"I","P"," ","C","h","a","i","n">>
L_Instructions ==
    <<"D","o"," ","n","o","t"," ","e","d","i","t"," ","t","h","i","s"," ","r","o","w">>
X_Song == <<"S","o","n","g">>
X_Eep100 == <<"E","E","P","-","1","0","0">>
X_Ann == <<"A","n","n">>
X_Lee == <<"L","e","e">>
X_Bob == <<"B","o","b">>
X_J == <<"J">>
X_Ray == <<"R","a","y">>
X_ElitePub ==
    <<"E","l","i","t","e"," ","E","m","b","a","s","s","y"," ","P","u","b","l","i","s",
      "h","i","n","g">>
X_EmbassiesPub ==
    <<"M","U","S","I","C"," ","E","M","B","A","S","S","I","E","S"," ","P","U","B","L",
      "I","S","H","I","N","G"," ","L","L","C">>
X_OtherPub == <<"O","t","h","e","r"," ","M","u","s","i","c">>
X_Arranger == <<"A","r","r","a","n","g","e","r">>
X_English == <<"E","n","g","l","i","s","h">>
X_WW == <<"W","W">>
X_T1 == <<"T","-","1">>
X_Old == <<"o","l","d">>

L_MyWorks == <<"m","y"," ","w","o","r","k","s"," ","e","x","p","o","r","t">>
L_SheetAltLower == <<"a","l","t","e","r","n","a","t","e">>
L_SheetIpLower == <<"i","p"," ","c","h","a","i","n">>
L_Sheet1 == <<"S","h","e","e","t","1">>
L_SheetAltShort == <<"A","l","t"," ","T","i","t","l","e","s">>
L_SheetIp2 == <<"I","P"," ","C","h","a","i","n"," ","2">>
L_Notes == <<"N","o","t","e","s">>
X_SongSpaced == <<" ","s","o","n","g"," ">>
X_Tune == <<"T","u","n","e">>
X_Eep100Spaced == <<" ","e","e","p","-","1","0","0"," ">>
X_Seven == <<"7",".","0">>
X_Zzz == <<"Z","Z","Z">>
X_FooBar == <<"f","o","o","\n","b","a","r">>
X_Baz == <<"b","a","z">>
X_Qux == <<" ","q","u","x"," ","\r","\n","\r","\n">>
X_Blank == <<" "," ">>

L_AltTitle == <<"A","l","t"," ","T","i","t","l","e">>
L_Alternates == <<"A","l","t","e","r","n","a","t","e","s">>
L_EepCatalog ==
    <<"E","E","P"," ","C","a","t","a","l","o","g"," ","N","u","m","b","e","r">>
L_TotalWriters == <<"T","o","t","a","l"," ","W","r","i","t","e","r","s">>
L_SongTitle == <<" ","s","o","n","g","'","s"," ","t","i","t","l","e"," ">>
X_TwoLines ==
    <<"t","w","o"," ","w","o","r","d","s","\r"," "," ","o","'","n","e","i","l"," ">>
RECURSIVE Concat(_)
Concat(ss) == IF ss = <<>> THEN <<>> ELSE Head(ss) \o Concat(Tail(ss))

\* the intake columns of writer i
JotWriterLabels(i) ==
    <<Indexed(L_Composer_, i, L_FirstName), Indexed(L_Composer_, i, L_MiddleName),
      Indexed(L_Composer_, i, L_LastName), Indexed(L_Composer_, i, L_Share),
      Indexed(L_Composer_, i, L_Capacity), Indexed(L_Composer_, i, L_Cae),
      Indexed(L_Composer_, i, L_Controlled), Indexed(L_Publisher_, i, L_Name),
      Indexed(L_Publisher_, i, L_Cae), Indexed(L_Publisher_, i, L_Capacity)>>

JotBaseLabels == <<L_Title, L_EepNumber, L_AltTitles, L_WriterTotal, L_EliteShare>>

\* an intake header with the columns of writers 1..k
JotCols(k) == JotBaseLabels \o Concat([i \in 1..k |-> JotWriterLabels(i)])

\* the cells of one writer, in the order of JotWriterLabels
WriterCells(w) == <<w.first, w.mid, w.last, w.share, w.cap, w.cae, w.ctrl,
                    w.pname, w.pcae, w.pcap>>

\* an intake row: its five base cells, then the cells of its writers
JotRow(title, eep, alt, total, elite, writers) ==
    <<title, eep, alt, total, elite>> \o Concat([i \in 1..Len(writers) |-> WriterCells(writers[i])])

\* writers as the form delivers them
W_Elite == [first |-> StrV(X_Ann), mid |-> NaNV, last |-> StrV(X_Lee), share |-> StrV(<<"5","0">>),
            cap |-> StrV(<<"C">>), cae |-> IntV(123), ctrl |-> StrV(<<"Y">>),
            pname |-> StrV(X_ElitePub), pcae |-> IntV(456), pcap |-> StrV(<<"O","P">>)]
W_Other == [first |-> StrV(X_Bob), mid |-> StrV(X_J), last |-> StrV(X_Ray), share |-> FloatV(100),
            cap |-> StrV(<<"a","c">>), cae |-> NaNV, ctrl |-> StrV(<<"N">>),
            pname |-> StrV(X_OtherPub), pcae |-> NaNV, pcap |-> StrV(<<"E">>)]
W_Blank == [first |-> NaNV, mid |-> NaNV, last |-> NaNV, share |-> NaNV,
            cap |-> NaNV, cae |-> NaNV, ctrl |-> NaNV,
            pname |-> NaNV, pcae |-> NaNV, pcap |-> NaNV]
W_YOther == [first |-> StrV(X_Ann), mid |-> NaNV, last |-> StrV(X_Ray),
             share |-> StrV(<<"1","0","0","%">>),
             cap |-> StrV(X_Arranger), cae |-> NaNV, ctrl |-> StrV(<<" ","y">>),
             pname |-> StrV(X_OtherPub), pcae |-> NaNV, pcap |-> NaNV]
W_NElite == [first |-> StrV(X_Bob), mid |-> NaNV, last |-> StrV(X_Lee), share |-> IntV(0),
             cap |-> StrV(<<"A">>), cae |-> IntV(789), ctrl |-> StrV(<<"N">>),
             pname |-> StrV(X_EmbassiesPub), pcae |-> IntV(456), pcap |-> StrV(<<"o","p"," ">>)]

\* the writers 1..k of an intake row, by pattern
WriterPatterns == {"elite", "other", "alternate", "first", "last", "blank", "crossed", "pairs"}
PatternWriters(pat, k) ==
    [i \in 1..k |->
        CASE pat = "elite" -> W_Elite
          [] pat = "other" -> W_Other
          [] pat = "alternate" -> IF i % 2 = 1 THEN W_Elite ELSE W_Other
          [] pat = "first" -> IF i = 1 THEN W_Elite ELSE W_Other
          [] pat = "last" -> IF i = k THEN W_Elite ELSE W_Other
          [] pat = "blank" -> W_Blank
          [] pat = "pairs" -> <<W_Elite, W_NElite, W_Other, W_YOther>>[((i - 1) % 4) + 1]
          [] OTHER -> IF i % 2 = 1 THEN W_YOther ELSE W_NElite]

\* the three sheets of a Curve re-export
WorksLabels == <<L_Id, L_Title, L_MainIdentifier, L_Tunecode, L_ForeignId, L_Language,
                 L_Territories>>
AltLabels == <<L_WorkId, L_WorkTitle, L_WorkMainIdentifier, L_WorkTunecode, L_AlternateTitle,
               L_Language>>
IpWorkLabels == <<L_WorkId, L_WorkTitle, L_WorkMainIdentifier, L_WorkTunecode, L_Territory>>
IpParticipantLabels(i) ==
    <<Indexed(L_Participant_, i, L_Type), Indexed(L_Participant_, i, L_Name),
      Indexed(L_Participant_, i, L_FirstName), Indexed(L_Participant_, i, L_MiddleName),
      Indexed(L_Participant_, i, L_Surname), Indexed(L_Participant_, i, L_Cae),
      Indexed(L_Participant_, i, L_Controlled), Indexed(L_Participant_, i, L_MechOwned),
      Indexed(L_Participant_, i, L_MechCollected), Indexed(L_Participant_, i, L_PerfOwned),
      Indexed(L_Participant_, i, L_PerfCollected), Indexed(L_Participant_, i, L_Capacity)>>
IpLabels(k) == IpWorkLabels \o Concat([i \in 1..k |-> IpParticipantLabels(i)])

LabelRow(labels) == [c \in 1..Len(labels) |-> StrV(labels[c])]
BlankRow(w) == [c \in 1..w |-> NoneV]
\* the second row of a sheet: a note in its first cell
NoteRow(w) == [c \in 1..w |-> IF c = 1 THEN StrV(L_Instructions) ELSE NoneV]
\* a data row left in a target sheet by an earlier run
OldRow(w) == [c \in 1..w |-> StrV(X_Old)]

\* works headers that lack columns
WorksBare == <<L_Id, L_Title, L_ForeignId>>
WorksNoTitle == <<L_Id, L_MainIdentifier, L_Tunecode, L_ForeignId, L_Language, L_Territories>>
WorksNoForeign == <<L_Id, L_Title, L_Language>>
WorksNoId == <<L_Title, L_Language>>
WorksForeignOnly == <<L_Title, L_ForeignId>>

\* target headers that lack columns
AltBare == <<L_WorkId, L_AlternateTitle>>
IpBare == <<L_WorkId, Indexed(L_Participant_, 1, L_Name), Indexed(L_Participant_, 1, L_MechOwned),
            Indexed(L_Participant_, 2, L_Type), Indexed(L_Participant_, 2, L_Name)>>

\* a work row under the given labels
WorkRow(labels, id, title, fid) ==
    [c \in 1..Len(labels) |->
        CASE labels[c] = L_Id -> id
          [] labels[c] = L_Title -> title
          [] labels[c] = L_ForeignId -> fid
          [] labels[c] = L_MainIdentifier -> StrV(X_T1)
          [] labels[c] = L_Language -> StrV(X_English)
          [] labels[c] = L_Territories -> StrV(X_WW)
          [] OTHER -> NoneV]

\* a sheet: lead blank rows, the header, then the rows
Sheet(name, lead, labels, rows) ==
    [name |-> name,
     rows |-> [i \in 1..lead |-> BlankRow(Len(labels))] \o <<LabelRow(labels)>> \o rows]

\* the rows under the header of a target sheet: the note, then rows of an earlier run
TargetRows(labels, old) ==
    <<NoteRow(Len(labels))>> \o [i \in 1..old |-> OldRow(Len(labels))]

\* a workbook of three sheets
Workbook(names, works, alt, ip) ==
    <<[name |-> names[1], rows |-> works],
      [name |-> names[2], rows |-> alt],
      [name |-> names[3], rows |-> ip]>>

HeaderOver(labels, rows) == <<LabelRow(labels)>> \o rows

StdNames == <<L_Works, L_SheetAlt, L_SheetIp>>

\* the intake headers and the header rows the runs are given
J_Full == JotCols(MaxParticipants)
J_Short == JotCols(2)
\* an intake header without the EEP catalog number column, and a row under it
J_NoKey == <<L_Title, L_AltTitles, L_WriterTotal, L_EliteShare>>
           \o Concat([i \in 1..2 |-> JotWriterLabels(i)])
JotRowNoKey(title, alt, total, elite, writers) ==
    <<title, alt, total, elite>> \o Concat([i \in 1..Len(writers) |-> WriterCells(writers[i])])

\* blank rows above a header
MaxLead == 2

MaxFlagWriters == 2
J_Flags == JotCols(MaxFlagWriters)
KnownJotCols == <<J_Full, J_Short, J_Flags, J_NoKey>>
KnownLabels == <<WorksLabels, WorksBare, WorksNoTitle, WorksNoForeign, WorksNoId, WorksForeignOnly,
                 AltLabels, AltBare, IpLabels(MaxParticipants + 1), IpLabels(3), IpBare>>
KnownHeaderRows == [k \in 1..Len(KnownLabels) |-> LabelRow(KnownLabels[k])]

-----------------------------------------------------------------------------
(* Participant extraction (lines 302-367) *)

\* the dynamic columns of writer i (lines 306-318)
WriterCols(cols, i) ==
    [c_first |-> FindJotCol(cols, <<<<Indexed(K_COMPOSER_, i, K_FIRST)>>>>),
     c_mid |-> FindJotCol(cols, <<<<Indexed(K_COMPOSER_, i, K_MIDDLE)>>>>),
     c_last |-> FindJotCol(cols, <<<<Indexed(K_COMPOSER_, i, K_LAST)>>>>),
     c_share |-> FindJotCol(cols, <<<<Indexed(K_COMPOSER_, i, K_SHARE)>>>>),
     c_cap |-> FindJotCol(cols, <<<<Indexed(K_COMPOSER_, i, K_CAPACITY)>>>>),
     c_cae |-> FindJotCol(cols, <<<<Indexed(K_COMPOSER_, i, K_CAE)>>>>),
     c_controlled |-> FindJotCol(cols, <<<<Indexed(K_COMPOSER_, i, K_CONTROLLED)>>>>),
     p_name |-> FindJotCol(cols, <<<<Indexed(K_PUBLISHER_, i, K_NAME)>>>>),
     p_cae |-> FindJotCol(cols, <<<<Indexed(K_PUBLISHER_, i, K_CAE)>>>>),
     p_cap |-> FindJotCol(cols, <<<<Indexed(K_PUBLISHER_, i, K_CAPACITY)>>>>),
     eep_share |-> FindJotCol(cols, EliteSharePatterns)]

\* jot_title_col, jot_eep_col, jot_alt_col, jot_writer_total_col (lines 148-153)
JotBaseCols(cols) ==
    [title |-> FindJotCol(cols, TitlePatterns),
     eep |-> FindJotCol(cols, EepPatterns),
     alt |-> FindJotCol(cols, AltPatterns),
     writer_total |-> FindJotCol(cols, WriterTotalPatterns)]

\* The column lookups depend on the header alone: for the headers the runs are
\* given they are evaluated once, here, and looked up afterwards.
JotColsTable ==
    [k \in 1..Len(KnownJotCols) |->
        [base |-> JotBaseCols(KnownJotCols[k]),
         writers |-> [i \in 1..MaxParticipants |-> WriterCols(KnownJotCols[k], i)]]]

JotColsKnown(cols) == \E k \in 1..Len(KnownJotCols) : KnownJotCols[k] = cols
JotColsEntry(cols) == JotColsTable[CHOOSE k \in 1..Len(KnownJotCols) : KnownJotCols[k] = cols]

JotBaseColsOf(cols) == IF JotColsKnown(cols) THEN JotColsEntry(cols).base ELSE JotBaseCols(cols)
WriterColsOf(cols, i) ==
    IF JotColsKnown(cols) /\ i <= MaxParticipants THEN JotColsEntry(cols).writers[i]
    ELSE WriterCols(cols, i)

\* is_publisher_controlled (lines 349-350)
IsPublisherControlled(p_name_str) ==
    LET norm_p_name == Norm(StrV(p_name_str))
    IN Contains(norm_p_name, T_EliteFragment) \/ Contains(norm_p_name, T_EmbassiesFragment)

\* is_composer_controlled (lines 336-337)
IsComposerControlled(row, col) ==
    (IF col # 0 THEN Upper(Strip(PyStr(RowGet(row, col)))) ELSE <<>>) = K_Y

\* w_obj of writer i, given its columns wc (lines 321-366)
WriterObj(row, wc) ==
    LET c_first == IF wc.c_first # 0 THEN StrOrEmpty(RowGet(row, wc.c_first)) ELSE <<>>
        c_mid == IF wc.c_mid # 0 THEN StrOrEmpty(RowGet(row, wc.c_mid)) ELSE <<>>
        c_last == IF wc.c_last # 0 THEN StrOrEmpty(RowGet(row, wc.c_last)) ELSE <<>>
        p_name_str == StrOrEmpty(RowGet(row, wc.p_name))
        mech_val == ExtractNumber(IF wc.eep_share # 0 THEN RowGet(row, wc.eep_share) ELSE NoneV)
    IN [c_first |-> c_first,
        c_mid |-> c_mid,
        c_last |-> c_last,
        c_name |-> Strip(ReplaceDoubleSpace(c_first \o <<" ">> \o c_mid \o <<" ">> \o c_last)),
        c_share |-> ParsePercentage(RowGet(row, wc.c_share)),
        c_cap |-> MapCapacity(RowGet(row, wc.c_cap), FALSE),
        c_cae |-> RowGet(row, wc.c_cae),
        p_name |-> p_name_str,
        p_cae |-> RowGet(row, wc.p_cae),
        p_cap |-> MapCapacity(RowGet(row, wc.p_cap), TRUE),
        mech_val |-> IF mech_val.t # "none" THEN mech_val ELSE FloatV(0),
        is_controlled |-> IsComposerControlled(row, wc.c_controlled),
        is_publisher_controlled |-> IsPublisherControlled(p_name_str)]

\* writer_total (lines 295-300); total_col is jot_writer_total_col
WriterTotal(row, total_col) ==
    IF total_col = 0 THEN 0
    ELSE LET n == IntOfFloat(RowGet(row, total_col)) IN IF n.ok THEN n.n ELSE 0

\* the loop of line 304 without its bound of 11
ExtractedCountUncapped(writer_total) == Max(0, writer_total)

\* how many writers the loop of line 304 extracts
ExtractedCount(writer_total) == Max(0, Min(writer_total + 1, MaxParticipants + 1) - 1)

\* extracted_writers (lines 303-367)
ExtractedWriters(cols, row, writer_total) ==
    [i \in 1..ExtractedCount(writer_total) |-> WriterObj(row, WriterColsOf(cols, i))]

\* the first positive mech_val of a list of writers, 0 if none (lines 376-379)
RECURSIVE FirstPositiveMech(_)
FirstPositiveMech(writers) ==
    IF writers = <<>> THEN 0
    ELSE IF Head(writers).mech_val.n > 0 THEN Head(writers).mech_val.n
    ELSE FirstPositiveMech(Tail(writers))

\* one flag for both: a writer marked Y counts as publisher-controlled
IsPubCtrlOrMarked(w) == w.is_publisher_controlled \/ w.is_controlled

IsPubCtrl(w) == w.is_publisher_controlled
IsNotPubCtrl(w) == ~w.is_publisher_controlled

\* controlled_group, other_group (lines 371-372)
ControlledGroup(writers) == SelectSeq(writers, IsPubCtrl)
OtherGroup(writers) == SelectSeq(writers, IsNotPubCtrl)

\* elite_mech_value (lines 375-384), in units
EliteMechValue(writers) ==
    LET e == FirstPositiveMech(ControlledGroup(writers))
    IN IF e = 0 THEN FirstPositiveMech(writers) ELSE e

\* rows_to_create with the other group first
RowsToCreateOtherFirst(writers) ==
    (IF OtherGroup(writers) # <<>>
     THEN <<[type |-> "other", writers |-> OtherGroup(writers)]>> ELSE <<>>)
    \o (IF ControlledGroup(writers) # <<>>
        THEN <<[type |-> "controlled", writers |-> ControlledGroup(writers)]>> ELSE <<>>)

\* rows_to_create (lines 386-390)
RowsToCreate(writers) ==
    (IF ControlledGroup(writers) # <<>>
     THEN <<[type |-> "controlled", writers |-> ControlledGroup(writers)]>> ELSE <<>>)
    \o (IF OtherGroup(writers) # <<>>
        THEN <<[type |-> "other", writers |-> OtherGroup(writers)]>> ELSE <<>>)

-----------------------------------------------------------------------------
(* Target columns and the rows written *)

\* participant_cols[i] (lines 228-244)
ParticipantColsAt(ip_headers, i) ==
    LET prefix == K_PARTICIPANT_ \o IntStr(i)
    IN [TYPE |-> HeaderFind(ip_headers, <<prefix, K_TYPE>>),
        NAME |-> HeaderFind(ip_headers, <<prefix, K_NAME>>),
        FIRST |-> HeaderFind(ip_headers, <<prefix, K_FIRST>>),
        MIDDLE |-> HeaderFind(ip_headers, <<prefix, K_MIDDLE>>),
        SURNAME |-> HeaderFind(ip_headers, <<prefix, K_SURNAME>>),
        CAE |-> HeaderFind(ip_headers, <<prefix, K_CAE>>),
        CONTROLLED |-> HeaderFind(ip_headers, <<prefix, K_CONTROLLED>>),
        MECH_OWN |-> HeaderFind(ip_headers, <<prefix, K_MECHANICAL, K_OWNED>>),
        MECH_COLL |-> HeaderFind(ip_headers, <<prefix, K_MECHANICAL, K_COLLECTED>>),
        PERF_OWN |-> HeaderFind(ip_headers, <<prefix, K_PERFORMANCE, K_OWNED>>),
        PERF_COLL |-> HeaderFind(ip_headers, <<prefix, K_PERFORMANCE, K_COLLECTED>>),
        CAPACITY |-> HeaderFind(ip_headers, <<prefix, K_CAPACITY>>)]

\* participant_cols (lines 226-244)
ParticipantCols(ip_headers) ==
    [i \in 1..MaxParticipants |-> ParticipantColsAt(ip_headers, i)]

\* the columns write_ip_work_info looks up (lines 287-291)
WorkInfoCols(ip_headers) ==
    [id |-> HeaderFind(ip_headers, <<K_WORK, K_ID>>),
     title |-> HeaderFind(ip_headers, <<K_WORK, K_TITLE>>),
     main |-> HeaderFind(ip_headers, <<K_WORK, K_MAIN>>),
     tune |-> HeaderFind(ip_headers, <<K_WORK, K_TUNE>>),
     territory |-> HeaderFind(ip_headers, <<K_TERRITORY>>)]

\* write_ip_work_info (lines 285-291)
WorkInfoWrites(wcols, pcols, c) ==
    Put(IF pcols[1].TYPE # 0 THEN pcols[1].TYPE ELSE 1, NoneV)
    \o Put(wcols.id, c.w_work_id_val)
    \o Put(wcols.title, c.w_title_val)
    \o Put(wcols.main, c.w_main_id_val)
    \o Put(wcols.tune, c.w_tunecode_val)
    \o Put(wcols.territory, c.w_terr_val)

\* The header map of a row and the columns found in it depend on the row alone:
\* for the header rows the runs are given they are evaluated once, here.
HeaderTable ==
    [k \in 1..Len(KnownHeaderRows) |->
        [headers |-> HeaderRow(KnownHeaderRows[k]),
         participant_cols |-> ParticipantCols(HeaderRow(KnownHeaderRows[k])),
         work_info_cols |-> WorkInfoCols(HeaderRow(KnownHeaderRows[k]))]]

HeaderRowOf(row) ==
    IF \E k \in 1..Len(KnownHeaderRows) : KnownHeaderRows[k] = row
    THEN HeaderTable[CHOOSE k \in 1..Len(KnownHeaderRows) : KnownHeaderRows[k] = row].headers
    ELSE HeaderRow(row)

HeadersKnown(headers) == \E k \in 1..Len(KnownHeaderRows) : HeaderTable[k].headers = headers
HeadersEntry(headers) ==
    HeaderTable[CHOOSE k \in 1..Len(KnownHeaderRows) : HeaderTable[k].headers = headers]

ParticipantColsOf(ip_headers) ==
    IF HeadersKnown(ip_headers) THEN HeadersEntry(ip_headers).participant_cols
    ELSE ParticipantCols(ip_headers)
WorkInfoColsOf(ip_headers) ==
    IF HeadersKnown(ip_headers) THEN HeadersEntry(ip_headers).work_info_cols
    ELSE WorkInfoCols(ip_headers)

\* _find_header_map
FindHeaderMap(rows) ==
    LET i == HeaderRowIndex(rows)
    IN IF i = 0 THEN <<>> ELSE HeaderRowOf(rows[i])

\* p1_mech with the other row given the whole
P1MechWhole(r_type, elite_mech_value) ==
    IF r_type = "controlled" THEN elite_mech_value ELSE 100 * Unit

\* p1_mech of a row of type r_type (lines 403-416), in units
P1Mech(r_type, elite_mech_value) ==
    IF r_type = "controlled" THEN elite_mech_value ELSE 100 * Unit - elite_mech_value

\* Participant 1 (lines 400-432)
PublisherWrites(p1_cols, r_type, writers, elite_mech_value) ==
    LET ctrl == r_type = "controlled"
        p1_name == IF ctrl THEN StrV(writers[1].p_name) ELSE StrV(T_CopyrightControl)
        p1_cae == IF ctrl THEN writers[1].p_cae ELSE StrV(T_ZeroCae)
        p1_cap == IF ctrl THEN StrV(writers[1].p_cap) ELSE StrV(T_OriginalPublisher)
        p1_mech == FloatV(P1Mech(r_type, elite_mech_value))
        p1_perf == Half(p1_mech)
    IN Put(p1_cols.TYPE, StrV(T_Publisher))
       \o Put(p1_cols.NAME, p1_name)
       \o Put(p1_cols.CAE, p1_cae)
       \o Put(p1_cols.CONTROLLED, BoolV(ctrl))
       \o Put(p1_cols.CAPACITY, p1_cap)
       \o Put(p1_cols.MECH_OWN, p1_mech)
       \o Put(p1_cols.MECH_COLL, p1_mech)
       \o Put(p1_cols.PERF_OWN, p1_perf)
       \o Put(p1_cols.PERF_COLL, p1_perf)

\* one composer slot (lines 439-462)
ComposerWrites(p_cols, w) ==
    LET comp_perf == Half(w.c_share)
    IN Put(p_cols.TYPE, StrV(T_Composer))
       \o Put(p_cols.NAME, StrV(w.c_name))
       \o Put(p_cols.FIRST, StrV(w.c_first))
       \o Put(p_cols.MIDDLE, StrV(w.c_mid))
       \o Put(p_cols.SURNAME, StrV(w.c_last))
       \o Put(p_cols.CAE, w.c_cae)
       \o Put(p_cols.CONTROLLED, BoolV(w.is_controlled))
       \o Put(p_cols.CAPACITY, StrV(w.c_cap))
       \o Put(p_cols.MECH_OWN, IntV(0))
       \o Put(p_cols.MECH_COLL, IntV(0))
       \o Put(p_cols.PERF_OWN, comp_perf)
       \o Put(p_cols.PERF_COLL, comp_perf)

\* the composer loop without its break
SlotCountUncapped(n_writers) == n_writers

\* how many writers of a row get a slot: p_idx = i + 2 runs to 10 (lines 435-437)
SlotCount(n_writers) == Min(n_writers, MaxParticipants - 1)

\* the composer loop (lines 435-462), from writer i (counted from 1) on
RECURSIVE ComposerLoop(_, _, _)
ComposerLoop(pcols, writers, i) ==
    IF i > SlotCount(Len(writers)) THEN <<>>
    ELSE ComposerWrites(pcols[i + 1], writers[i]) \o ComposerLoop(pcols, writers, i + 1)

\* everything written for one row of rows_to_create (lines 397-462)
ChainRowWrites(wcols, pcols, row_data, elite_mech_value, c) ==
    WorkInfoWrites(wcols, pcols, c)
    \o PublisherWrites(pcols[1], row_data.type, row_data.writers, elite_mech_value)
    \o ComposerLoop(pcols, row_data.writers, 1)

\* a or b, on column positions
OrCol(a, b) == IF a # 0 THEN a ELSE b

\* everything written for one alternate title (lines 475-491)
AltRowWrites(alt_headers, alt, c) ==
    Put(OrCol(HeaderGet(alt_headers, K_WORK_ID), HeaderGet(alt_headers, K_ID)), c.w_work_id_val)
    \o Put(HeaderGet(alt_headers, K_WORK_TITLE), c.w_title_val)
    \o Put(HeaderGet(alt_headers, K_WORK_MAIN_IDENTIFIER),
           IF Truthy(c.w_main_id_val) THEN c.w_main_id_val ELSE StrV(<<>>))
    \o Put(HeaderGet(alt_headers, K_WORK_TUNECODE),
           IF Truthy(c.w_tunecode_val) THEN c.w_tunecode_val ELSE StrV(<<>>))
    \o Put(HeaderGet(alt_headers, K_ALTERNATE_TITLE), StrV(TitleCase(Strip(alt))))
    \o Put(HeaderGet(alt_headers, K_LANGUAGE), c.w_lang_val)

-----------------------------------------------------------------------------
(* process_alternate_titles *)

MsgNoWorks == "Processing Failed in step2.py: ValueError: Curve file: 'Works' sheet not found"
MsgNoAlt == "Processing Failed in step2.py: ValueError: Curve file: 'Alternate Titles' sheet not found"
MsgNoIp == "Processing Failed in step2.py: ValueError: Curve file: 'IP Chain' sheet not found"
MsgNoId == "Processing Failed in step2.py: ValueError: Works sheet missing 'ID' column"
MsgNoForeign == "Processing Failed in step2.py: ValueError: Works sheet missing 'Foreign ID' column (needed for lookup)"
MsgKeyError == "Processing Failed in step2.py: KeyError: 11"
MsgCellNone == "Processing Failed in step2.py: TypeError: '<' not supported between instances of 'NoneType' and 'int'"

NoCols == [title |-> 0, eep |-> 0, alt |-> 0, writer_total |-> 0]
NoWs == [works |-> 0, alt |-> 0, ip |-> 0, max_row |-> 0]
NoHdr == [works |-> <<>>, alt |-> <<>>, ip |-> <<>>,
          col_work_id |-> 0, col_title |-> 0, col_main_id |-> 0, col_tunecode |-> 0,
          col_foreign |-> 0, col_lang |-> 0, col_territory |-> 0,
          participant_cols |-> <<>>]
NoCur == [w_work_id_val |-> NoneV, w_title_val |-> NoneV, w_foreign_val |-> NoneV,
          w_main_id_val |-> NoneV, w_tunecode_val |-> NoneV, w_lang_val |-> NoneV,
          w_terr_val |-> NoneV, w_title_norm |-> <<>>, w_foreign_norm |-> <<>>,
          matched |-> 0, writer_total |-> 0, rows_to_create |-> <<>>,
          elite_mech_value |-> 0, alt_titles |-> <<>>]
NoFx == [fn |-> "none", arg |-> <<>>, out |-> <<>>]

\* lines 145-157: read the intake table, resolve its columns
LoadJotform ==
    /\ pc = "start"
    /\ jcols' = JotBaseColsOf(jot.cols)
    /\ jot_row_lookup' = <<>>
    /\ jot_alt_lookup' = <<>>
    /\ idx' = 1
    /\ pc' = "index"
    /\ UNCHANGED <<jot, curve, wb, ws, hdr, write_row_alt, write_row_ip, r, cur, result, log, fx>>

\* jot_alt_lookup after the intake row `row` (lines 169-178)
AltLookupAfter(lookup, row, cols, eep_norm) ==
    LET title_val == RowGet(row, cols.title)
        alt_raw == RowGet(row, cols.alt)
    IN IF /\ title_val.t # "none"
          /\ Norm(title_val) # <<>>
          /\ cols.alt # 0
          /\ alt_raw.t = "str"
          /\ Strip(alt_raw.s) # <<>>
          /\ AltList(alt_raw.s) # <<>>
       THEN DictPut(lookup, <<Norm(title_val), eep_norm>>, AltList(alt_raw.s))
       ELSE lookup

\* lines 160-178: one turn of the iterrows loop
IndexRow ==
    /\ pc = "index"
    /\ idx <= Len(jot.rows)
    /\ LET row == jot.rows[idx]
           eep_val == RowGet(row, jcols.eep)
       IN IF eep_val.t # "none"
          THEN /\ jot_row_lookup' = DictPut(jot_row_lookup, Norm(eep_val), idx)
               /\ jot_alt_lookup' = AltLookupAfter(jot_alt_lookup, row, jcols, Norm(eep_val))
          ELSE UNCHANGED <<jot_row_lookup, jot_alt_lookup>>
    /\ idx' = idx + 1
    /\ UNCHANGED <<pc, jot, curve, wb, jcols, ws, hdr, write_row_alt, write_row_ip, r, cur,
                   result, log, fx>>

\* lines 182-195: open the workbook, find the three sheets
LoadWorkbook ==
    /\ pc = "index"
    /\ idx > Len(jot.rows)
    /\ wb' = curve
    /\ LET names == [i \in 1..Len(curve) |-> curve[i].name]
           works == FindSheetName(names, <<K_WORK>>, FALSE)
           alt == FindSheetName(names, <<K_ALTERNATE>>, FALSE)
           ip == FindSheetName(names, <<K_IP_CHAIN>>, TRUE)
       IN IF works = 0 \/ alt = 0 \/ ip = 0
          THEN /\ pc' = "failed"
               /\ result' = IF works = 0 THEN MsgNoWorks
                            ELSE IF alt = 0 THEN MsgNoAlt ELSE MsgNoIp
               /\ UNCHANGED ws
          ELSE /\ pc' = "headers"
               /\ ws' = [works |-> works, alt |-> alt, ip |-> ip, max_row |-> 0]
               /\ UNCHANGED result
    /\ UNCHANGED <<jot, curve, jcols, idx, jot_row_lookup, jot_alt_lookup, hdr,
                   write_row_alt, write_row_ip, r, cur, log, fx>>

\* lines 198-244: the header maps, the works columns, participant_cols
MapHeaders ==
    /\ pc = "headers"
    /\ LET works_headers == FindHeaderMap(wb[ws.works].rows)
           alt_headers == FindHeaderMap(wb[ws.alt].rows)
           ip_headers == FindHeaderMap(wb[ws.ip].rows)
           col_work_id == HeaderFind(works_headers, <<K_ID>>)
           col_foreign == HeaderFind(works_headers, <<K_FOREIGN, K_ID>>)
       IN IF col_work_id = 0 \/ col_foreign = 0
          THEN /\ pc' = "failed"
               /\ result' = IF col_work_id = 0 THEN MsgNoId ELSE MsgNoForeign
               /\ UNCHANGED hdr
          ELSE /\ pc' = "clean"
               /\ hdr' = [works |-> works_headers, alt |-> alt_headers, ip |-> ip_headers,
                          col_work_id |-> col_work_id,
                          col_title |-> HeaderFind(works_headers, <<K_TITLE>>),
                          col_main_id |-> HeaderFind(works_headers, <<K_MAIN, K_IDENTIFIER>>),
                          col_tunecode |-> HeaderFind(works_headers, <<K_TUNECODE>>),
                          col_foreign |-> col_foreign,
                          col_lang |-> HeaderFind(works_headers, <<K_LANGUAGE>>),
                          col_territory |-> HeaderFind(works_headers, <<K_TERRITORIES>>),
                          participant_cols |-> ParticipantColsOf(ip_headers)]
               /\ UNCHANGED result
    /\ UNCHANGED <<jot, curve, wb, jcols, idx, jot_row_lookup, jot_alt_lookup, ws,
                   write_row_alt, write_row_ip, r, cur, log, fx>>

\* lines 247-257: clear the two target sheets, set the write cursors
CleanTargets ==
    /\ pc = "clean"
    /\ LET wb1 == [wb EXCEPT ![ws.alt].rows = CleanSheet(@)]
           wb2 == [wb1 EXCEPT ![ws.ip].rows = CleanSheet(@)]
       IN /\ wb' = wb2
          /\ ws' = [ws EXCEPT !.max_row = Len(wb2[ws.works].rows)]
    /\ write_row_alt' = KeptRows + 1
    /\ write_row_ip' = KeptRows + 1
    /\ r' = 2
    /\ pc' = "loop"
    /\ UNCHANGED <<jot, curve, jcols, idx, jot_row_lookup, jot_alt_lookup, hdr, cur, result, log, fx>>

\* the lookup probed with the text of the cell as it stands
MatchedJotRowRaw(lookup, w_foreign_val) == DictGet(lookup, PyStr(w_foreign_val), 0)

\* matched_jot_row, as an intake row position, 0 for None (lines 276, 282)
MatchedJotRow(lookup, w_foreign_val) == DictGet(lookup, Norm(w_foreign_val), 0)

\* what the loop holds for a work row with an ID (lines 268-390, 470-471)
WorkRowData(rows, row) ==
    LET opt(col) == IF col # 0 THEN Cell(rows, row, col) ELSE NoneV
        w_title_val == Cell(rows, row, hdr.col_title)
        w_foreign_val == Cell(rows, row, hdr.col_foreign)
        matched == MatchedJotRow(jot_row_lookup, w_foreign_val)
        writer_total == IF matched # 0 THEN WriterTotal(jot.rows[matched], jcols.writer_total)
                        ELSE 0
        writers == IF matched # 0
                   THEN ExtractedWriters(jot.cols, jot.rows[matched], writer_total)
                   ELSE <<>>
    IN [w_work_id_val |-> Cell(rows, row, hdr.col_work_id),
        w_title_val |-> w_title_val,
        w_foreign_val |-> w_foreign_val,
        w_main_id_val |-> opt(hdr.col_main_id),
        w_tunecode_val |-> opt(hdr.col_tunecode),
        w_lang_val |-> opt(hdr.col_lang),
        w_terr_val |-> opt(hdr.col_territory),
        w_title_norm |-> Norm(w_title_val),
        w_foreign_norm |-> Norm(w_foreign_val),
        matched |-> matched,
        writer_total |-> writer_total,
        rows_to_create |-> RowsToCreate(writers),
        elite_mech_value |-> EliteMechValue(writers),
        alt_titles |-> DictGet(jot_alt_lookup, <<Norm(w_title_val), Norm(w_foreign_val)>>, <<>>)]

\* lines 265-390: read work row r, look its intake row up, group its writers.
\* ws_works.cell(r, col_title) raises when col_title is None.
ReadWorkRow ==
    /\ pc = "loop"
    /\ r <= ws.max_row
    /\ LET rows == wb[ws.works].rows
       IN IF Cell(rows, r, hdr.col_work_id).t = "none"
          THEN /\ r' = r + 1
               /\ UNCHANGED <<pc, cur, result>>
          ELSE IF hdr.col_title = 0
          THEN /\ pc' = "failed"
               /\ result' = MsgCellNone
               /\ UNCHANGED <<r, cur>>
          ELSE /\ cur' = WorkRowData(rows, r)
               /\ pc' = "chain"
               /\ UNCHANGED <<r, result>>
    /\ UNCHANGED <<jot, curve, wb, jcols, idx, jot_row_lookup, jot_alt_lookup, ws, hdr,
                   write_row_alt, write_row_ip, log, fx>>

\* lines 393-464: write the next row of rows_to_create to the IP Chain sheet.
\* participant_cols[p_idx] raises KeyError for a p_idx the dict does not hold.
EmitChainRow ==
    /\ pc = "chain"
    /\ cur.rows_to_create # <<>>
    /\ LET row_data == Head(cur.rows_to_create)
       IN IF SlotCount(Len(row_data.writers)) + 1 > Len(hdr.participant_cols)
          THEN /\ pc' = "failed"
               /\ result' = MsgKeyError
               /\ UNCHANGED <<wb, log, write_row_ip, cur>>
          ELSE /\ wb' = [wb EXCEPT ![ws.ip].rows =
                            WriteCells(@, write_row_ip,
                                ChainRowWrites(WorkInfoColsOf(hdr.ip), hdr.participant_cols,
                                               row_data, cur.elite_mech_value, cur))]
               /\ log' = Append(log, [kind |-> "ip", at |-> write_row_ip, work |-> r,
                                      src |-> cur.matched, type |-> row_data.type,
                                      n |-> Len(row_data.writers)])
               /\ write_row_ip' = write_row_ip + 1
               /\ cur' = [cur EXCEPT !.rows_to_create = Tail(@)]
               /\ UNCHANGED <<pc, result>>
    /\ UNCHANGED <<jot, curve, jcols, idx, jot_row_lookup, jot_alt_lookup, ws, hdr,
                   write_row_alt, r, fx>>

\* line 473: the IP Chain rows of work row r are written; turn to its alternate titles
ChainDone ==
    /\ pc = "chain"
    /\ cur.rows_to_create = <<>>
    /\ pc' = "alt"
    /\ UNCHANGED <<jot, curve, wb, jcols, idx, jot_row_lookup, jot_alt_lookup, ws, hdr,
                   write_row_alt, write_row_ip, r, cur, result, log, fx>>

\* lines 474-493: write the next alternate title to the Alternate Titles sheet
EmitAltRow ==
    /\ pc = "alt"
    /\ cur.alt_titles # <<>>
    /\ wb' = [wb EXCEPT ![ws.alt].rows =
                  WriteCells(@, write_row_alt, AltRowWrites(hdr.alt, Head(cur.alt_titles), cur))]
    /\ log' = Append(log, [kind |-> "alt", at |-> write_row_alt, work |-> r,
                           src |-> cur.matched, type |-> "alt", n |-> 0])
    /\ write_row_alt' = write_row_alt + 1
    /\ cur' = [cur EXCEPT !.alt_titles = Tail(@)]
    /\ UNCHANGED <<pc, jot, curve, jcols, idx, jot_row_lookup, jot_alt_lookup, ws, hdr,
                   write_row_ip, r, result, fx>>

\* line 263: the next work row
NextWorkRow ==
    /\ pc = "alt"
    /\ cur.alt_titles = <<>>
    /\ r' = r + 1
    /\ pc' = "loop"
    /\ cur' = NoCur
    /\ UNCHANGED <<jot, curve, wb, jcols, idx, jot_row_lookup, jot_alt_lookup, ws, hdr,
                   write_row_alt, write_row_ip, result, log, fx>>

\* lines 496-499: save and return the workbook
Save ==
    /\ pc = "loop"
    /\ r > ws.max_row
    /\ pc' = "done"
    /\ result' = "ok"
    /\ UNCHANGED <<jot, curve, wb, jcols, idx, jot_row_lookup, jot_alt_lookup, ws, hdr,
                   write_row_alt, write_row_ip, r, cur, log, fx>>

Next ==
    \/ LoadJotform
    \/ IndexRow
    \/ LoadWorkbook
    \/ MapHeaders
    \/ CleanTargets
    \/ ReadWorkRow
    \/ EmitChainRow
    \/ ChainDone
    \/ EmitAltRow
    \/ NextWorkRow
    \/ Save

-----------------------------------------------------------------------------
(* The runs *)

MaxWriterTotal == 12
MaxOldRows == 2
MaxJotRows == 2

\* all the sequences over S of length at most n
SeqsUpTo(S, n) == UNION {[1..k -> S] : k \in 0..n}

\* what the Writer Total cell may hold
WriterTotals == {IntV(n) : n \in 0..MaxWriterTotal}
                \cup {NaNV, IntV(-1), IntV(15), FloatV(5 * Unit), StrV(<<" ","3">>),
                      StrV(<<"t","w","o">>)}

\* what the Elite share cell may hold
EliteShares == {StrV(<<"6","0","%">>), NaNV, FloatV(25 * Unit), StrV(<<"1","5","0","%">>)}

\* one intake row of up to ten writers, matched by the one work row
InitChain ==
    \E total \in WriterTotals, elite \in EliteShares, pat \in WriterPatterns :
        /\ jot = [cols |-> J_Full,
                  rows |-> <<JotRow(StrV(X_Song), StrV(X_Eep100), NaNV, total, elite,
                                    PatternWriters(pat, MaxParticipants))>>]
        /\ curve = Workbook(StdNames,
                      HeaderOver(WorksLabels,
                                 <<WorkRow(WorksLabels, IntV(1), StrV(X_Song), StrV(X_Eep100))>>),
                      HeaderOver(AltLabels, TargetRows(AltLabels, 0)),
                      HeaderOver(IpLabels(MaxParticipants + 1),
                                 TargetRows(IpLabels(MaxParticipants + 1), 1)))

\* intake rows of two writers: keys that differ in case, spacing and type, and repeat
JoinRows ==
    {JotRow(StrV(X_Song), StrV(X_Eep100), StrV(X_FooBar), IntV(1), StrV(<<"6","0","%">>),
            <<W_Elite, W_Other>>),
     JotRow(StrV(X_SongSpaced), StrV(X_Eep100Spaced), NaNV, IntV(2), NaNV,
            <<W_Other, W_Elite>>),
     JotRow(StrV(X_Tune), IntV(7), StrV(X_Baz), IntV(2), FloatV(25 * Unit),
            <<W_Other, W_Other>>),
     JotRow(StrV(X_Song), FloatV(7 * Unit), StrV(X_Qux), IntV(0), NaNV,
            <<W_Blank, W_Blank>>),
     JotRow(StrV(X_Song), NaNV, StrV(X_Baz), IntV(1), NaNV,
            <<W_Elite, W_Blank>>),
     JotRow(StrV(X_SongSpaced), StrV(X_Eep100Spaced), StrV(X_Baz), IntV(2), NaNV,
            <<W_Elite, W_Elite>>),
     JotRow(NaNV, StrV(X_Eep100), StrV(X_Baz), IntV(1), NaNV,
            <<W_Other, W_Blank>>),
     JotRow(StrV(X_Tune), StrV(X_Seven), StrV(X_TwoLines), IntV(2), NaNV,
            <<W_YOther, W_NElite>>)}

\* the work rows of a run
JoinWorks ==
    LET W(id, title, fid) == WorkRow(WorksLabels, id, title, fid)
    IN {<<W(IntV(1), StrV(X_Song), StrV(X_Eep100))>>,
        <<W(IntV(1), StrV(X_Song), StrV(X_Eep100)), W(IntV(2), StrV(X_Tune), StrV(X_Seven))>>,
        <<W(NoneV, StrV(X_Song), StrV(X_Eep100)), W(IntV(3), StrV(X_Song), StrV(X_Zzz))>>,
        <<W(IntV(4), StrV(X_Tune), StrV(X_Eep100Spaced)), W(IntV(5), StrV(X_Song), NoneV)>>,
        <<W(IntV(6), StrV(X_SongSpaced), IntV(7)), W(IntV(1), StrV(X_Song), StrV(X_Eep100))>>,
        <<W(IntV(8), NoneV, StrV(X_Eep100)), W(IntV(9), StrV(X_Blank), StrV(X_Seven))>>}

\* several intake rows, several work rows
InitJoin ==
    \E rows \in SeqsUpTo(JoinRows, MaxJotRows), works \in JoinWorks :
        /\ jot = [cols |-> J_Short, rows |-> rows]
        /\ curve = Workbook(StdNames,
                      HeaderOver(WorksLabels, works),
                      HeaderOver(AltLabels, TargetRows(AltLabels, 1)),
                      HeaderOver(IpLabels(3), TargetRows(IpLabels(3), 0)))

\* sheet names of a workbook
SheetNameSets ==
    {StdNames,
     <<L_MyWorks, L_SheetAltLower, L_SheetIpLower>>,
     <<L_Sheet1, L_SheetAlt, L_SheetIp>>,
     <<L_Works, L_SheetAltShort, L_SheetIp>>,
     <<L_Works, L_SheetAlt, L_SheetIp2>>,
     <<L_Sheet1, L_SheetAltShort, L_SheetIp2>>}

WorksHeaders == {WorksLabels, WorksBare, WorksNoTitle, WorksNoForeign, WorksNoId, WorksForeignOnly}

\* a target sheet: its header alone, or the header, the note and old rows
TargetSheets(labels) ==
    {<<LabelRow(labels)>>} \cup {HeaderOver(labels, TargetRows(labels, old)) : old \in 0..MaxOldRows}

\* the works sheet: blank rows, a header, one work row; or no header at all
WorksSheets ==
    {Sheet(L_Works, lead, labels,
           <<WorkRow(labels, IntV(1), StrV(X_Song), StrV(X_Eep100))>>).rows :
        lead \in 0..1, labels \in WorksHeaders}
    \cup {<<BlankRow(3), BlankRow(3)>>}

\* one matched work, in workbooks that lack sheets, columns or rows
InitStructure ==
    /\ jot = [cols |-> J_Short,
              rows |-> <<JotRow(StrV(X_Song), StrV(X_Eep100), StrV(X_FooBar), IntV(2),
                                StrV(<<"6","0","%">>), <<W_Elite, W_Other>>)>>]
    /\ \/ \E names \in SheetNameSets :
            curve = Workbook(names,
                       HeaderOver(WorksLabels,
                                  <<WorkRow(WorksLabels, IntV(1), StrV(X_Song), StrV(X_Eep100))>>),
                       HeaderOver(AltLabels, TargetRows(AltLabels, 1)),
                       HeaderOver(IpLabels(3), TargetRows(IpLabels(3), 1)))
       \/ \E works \in WorksSheets, alt_labels \in {AltLabels, AltBare},
             ip_labels \in {IpLabels(3), IpBare} :
            \E alt \in TargetSheets(alt_labels), ip \in TargetSheets(ip_labels) :
                curve = Workbook(StdNames, works, alt, ip)

\* an intake table without the business-key column
InitNoKey ==
    /\ jot = [cols |-> J_NoKey,
              rows |-> <<JotRowNoKey(StrV(X_Song), StrV(X_FooBar), IntV(2),
                                     StrV(<<"6","0","%">>), <<W_Elite, W_Other>>)>>]
    /\ \E old \in 0..MaxOldRows :
          curve = Workbook(StdNames,
                     HeaderOver(WorksLabels,
                                <<WorkRow(WorksLabels, IntV(1), StrV(X_Song), StrV(X_Eep100)),
                                  WorkRow(WorksLabels, IntV(2), StrV(X_Song), NoneV)>>),
                     HeaderOver(AltLabels, TargetRows(AltLabels, old)),
                     HeaderOver(IpLabels(3), TargetRows(IpLabels(3), old)))

\* the headers under blank rows; one intake row is keyed by the header's own label
InitHeaderRows ==
    /\ jot = [cols |-> J_Short,
              rows |-> <<JotRow(StrV(X_Song), StrV(X_Eep100), StrV(X_FooBar), IntV(2),
                                StrV(<<"6","0","%">>), <<W_Elite, W_Other>>),
                         JotRow(StrV(L_Title), StrV(L_ForeignId), StrV(X_Baz), IntV(1),
                                NaNV, <<W_Elite, W_Blank>>)>>]
    /\ \E lead_works \in 0..MaxLead, lead_alt \in 0..MaxLead, lead_ip \in 0..MaxLead :
          curve = Workbook(StdNames,
                     Sheet(L_Works, lead_works, WorksLabels,
                           <<WorkRow(WorksLabels, IntV(1), StrV(X_Song), StrV(X_Eep100))>>).rows,
                     Sheet(L_SheetAlt, lead_alt, AltLabels, TargetRows(AltLabels, 1)).rows,
                     Sheet(L_SheetIp, lead_ip, IpLabels(3), TargetRows(IpLabels(3), 1)).rows)

InitProgram ==
    /\ pc = "start"
    /\ wb = <<>>
    /\ jcols = NoCols
    /\ idx = 0
    /\ jot_row_lookup = <<>>
    /\ jot_alt_lookup = <<>>
    /\ ws = NoWs
    /\ hdr = NoHdr
    /\ write_row_alt = 0
    /\ write_row_ip = 0
    /\ r = 0
    /\ cur = NoCur
    /\ result = "none"
    /\ log = <<>>
    /\ fx = NoFx

Init == InitProgram /\ (InitChain \/ InitJoin \/ InitStructure \/ InitNoKey \/ InitHeaderRows)

Spec == Init /\ [][Next]_vars

-----------------------------------------------------------------------------
(* _norm and _find_jot_col on their own *)

MaxNormLen == 3
MaxCols == 3

\* no run of process_alternate_titles is under way
InitIdle ==
    /\ pc = "idle"
    /\ jot = [cols |-> <<>>, rows |-> <<>>]
    /\ curve = <<>>
    /\ wb = <<>>
    /\ jcols = NoCols
    /\ idx = 0
    /\ jot_row_lookup = <<>>
    /\ jot_alt_lookup = <<>>
    /\ ws = NoWs
    /\ hdr = NoHdr
    /\ write_row_alt = 0
    /\ write_row_ip = 0
    /\ r = 0
    /\ cur = NoCur
    /\ result = "none"
    /\ log = <<>>

idle_vars == <<pc, jot, curve, wb, jcols, idx, jot_row_lookup, jot_alt_lookup, ws, hdr,
               write_row_alt, write_row_ip, r, cur, result, log>>

\* the values _norm is given: texts of letters, digits, dots and whitespace, and
\* what a cell holds besides
NormChars == {"a", "A", " ", "\t", "7", ".", "0"}
NormInputs ==
    {StrV(s) : s \in SeqsUpTo(NormChars, MaxNormLen)}
    \cup {NoneV, NaNV, BoolV(TRUE), BoolV(FALSE)}
    \cup {IntV(n) : n \in (0 - 2)..12}
    \cup {FloatV(u) : u \in {0, Unit \div 2, Unit, 7 * Unit, (7 * Unit) + (Unit \div 2),
                             0 - Unit, 10 * Unit}}

\* every whitespace character of s written twice
WidenRuns(s) ==
    LET twice == [i \in 1..Len(s) |-> IF IsSpace(s[i]) THEN <<s[i], s[i]>> ELSE <<s[i]>>]
        upto(i) == i + Cardinality({j \in 1..i : IsSpace(s[j])})
    IN [p \in 1..upto(Len(s)) |->
          LET i == CHOOSE i \in 1..Len(s) : upto(i - 1) < p /\ p <= upto(i)
          IN twice[i][p - upto(i - 1)]]

\* the values that differ from v only in letter case, in leading or trailing
\* whitespace, or in the length of the whitespace runs inside
Variants(v) ==
    IF v.t # "str" THEN {}
    ELSE {StrV(Upper(v.s)), StrV(Lower(v.s)), StrV(<<" ">> \o v.s), StrV(v.s \o <<"\t", " ">>),
          StrV(<<"\n">> \o v.s \o <<" ">>)}
         \cup (IF v.s # <<>> /\ ~IsSpace(v.s[1]) /\ ~IsSpace(v.s[Len(v.s)])
               THEN {StrV(WidenRuns(v.s))} ELSE {})

InitNorm ==
    /\ InitIdle
    /\ \E v \in NormInputs : fx = [fn |-> "norm", arg |-> v, out |-> <<>>]

\* _norm(v)
ApplyNorm ==
    /\ fx.fn = "norm"
    /\ fx' = [fn |-> "normed", arg |-> fx.arg, out |-> <<Norm(fx.arg)>>]
    /\ UNCHANGED idle_vars

\* _norm(_norm(v))
ApplyNormAgain ==
    /\ fx.fn = "normed"
    /\ fx' = [fn |-> "renormed", arg |-> fx.arg, out |-> <<fx.out[1], Norm(StrV(fx.out[1]))>>]
    /\ UNCHANGED idle_vars

\* _norm(v) and _norm(w), w a variant of v
ApplyNormToVariant ==
    /\ fx.fn = "norm"
    /\ \E w \in Variants(fx.arg) :
          fx' = [fn |-> "varied", arg |-> fx.arg, out |-> <<Norm(fx.arg), w, Norm(w)>>]
    /\ UNCHANGED idle_vars

NextNorm == ApplyNorm \/ ApplyNormAgain \/ ApplyNormToVariant

SpecNorm == InitNorm /\ [][NextNorm]_vars

\* the labels an intake header is made of
ResolverLabels == {L_Title, L_AlternateTitle, L_AltTitle, L_Alternates, L_EepNumber,
                   L_EepCatalog, L_WriterTotal, L_TotalWriters, L_Notes, L_SongTitle}

\* headers of distinct labels
ResolverHeaders ==
    {cols \in SeqsUpTo(ResolverLabels, MaxCols) :
        \A a, b \in 1..Len(cols) : a # b => cols[a] # cols[b]}

\* the keyword-sets of lines 148-153
ResolverPatterns == {TitlePatterns, EepPatterns, AltPatterns, WriterTotalPatterns}

InitResolver ==
    /\ InitIdle
    /\ \E cols \in ResolverHeaders, patterns \in ResolverPatterns :
          fx = [fn |-> "find", arg |-> [cols |-> cols, patterns |-> patterns], out |-> <<>>]

\* _find_jot_col(df, patterns)
ResolveColumn ==
    /\ fx.fn = "find"
    /\ fx' = [fn |-> "found", arg |-> fx.arg, out |-> <<FindJotCol(fx.arg.cols, fx.arg.patterns)>>]
    /\ UNCHANGED idle_vars

NextResolver == ResolveColumn

SpecResolver == InitResolver /\ [][NextResolver]_vars

-----------------------------------------------------------------------------
(* Extraction and grouping on their own: one intake row, and the same row with other
   Y/N markers *)

\* publisher names and Y/N markers of a writer
FlagNames == {StrV(X_ElitePub), StrV(X_EmbassiesPub), StrV(X_OtherPub)}
FlagMarkers == {StrV(<<"Y">>), StrV(<<"N">>), StrV(<<" ", "y">>)}

\* writer i of the row, known by its first name
FlagWriter(i, pname, ctrl) ==
    [W_Other EXCEPT !.first = StrV(<<"W">> \o IntStr(i)), !.pname = pname, !.ctrl = ctrl]

FlagRow(names, markers) ==
    JotRow(StrV(X_Song), StrV(X_Eep100), NaNV, IntV(Len(names)), NaNV,
           [i \in 1..Len(names) |-> FlagWriter(i, names[i], markers[i])])

\* participant_cols of an IP Chain header
FlagPCols == ParticipantColsOf(HeaderRowOf(LabelRow(IpLabels(MaxParticipants + 1))))

\* what lines 293-462 make of a matched intake row: per row of rows_to_create its
\* type, its writers by first name, and what the composer loop writes
ChainOf(row) ==
    LET total == WriterTotal(row, JotBaseColsOf(J_Flags).writer_total)
        rows == RowsToCreate(ExtractedWriters(J_Flags, row, total))
    IN [k \in 1..Len(rows) |->
          [type |-> rows[k].type,
           who |-> [j \in 1..Len(rows[k].writers) |-> rows[k].writers[j].c_first],
           writes |-> ComposerLoop(FlagPCols, rows[k].writers, 1)]]

InitFlags ==
    /\ InitIdle
    /\ \E names \in [1..MaxFlagWriters -> FlagNames],
          markers \in [1..MaxFlagWriters -> FlagMarkers],
          others \in [1..MaxFlagWriters -> FlagMarkers] :
          fx = [fn |-> "rows", arg |-> [names |-> names, markers |-> markers, others |-> others],
                out |-> <<>>]

\* the rows of the intake row, and of the row with the other markers
GroupWriters ==
    /\ fx.fn = "rows"
    /\ fx' = [fn |-> "grouped", arg |-> fx.arg,
              out |-> <<ChainOf(FlagRow(fx.arg.names, fx.arg.markers)),
                        ChainOf(FlagRow(fx.arg.names, fx.arg.others))>>]
    /\ UNCHANGED idle_vars

NextFlags == GroupWriters

SpecFlags == InitFlags /\ [][NextFlags]_vars

-----------------------------------------------------------------------------
(* The ISWC rules of process_curve_files (app.py) on their own *)

MaxIswcLen == 16
ISWC_MAX_LEN == 15

EXCLUSIONS_LIST ==
    <<<<"R","E","Q","U","E","S","T"," ","F","R","O","M"," ","B","M","I">>,
      <<"N","O","T"," ","E","L","I","G","I","B","L","E">>,
      <<"N","R","Y">>,
      <<"N","R","Y","I">>,
      <<"Y","T","O">>,
      <<"O","J">>>>

\* is_multiline
IsMultiline(x) == x.t = "str" /\ \E i \in 1..Len(x.s) : x.s[i] \in {"\n", "\r"}

\* apply_universal_filter
ApplyUniversalFilter(x) ==
    IF x.t = "str" /\ \E e \in 1..Len(EXCLUSIONS_LIST) : Contains(Upper(x.s), EXCLUSIONS_LIST[e])
    THEN NoneV ELSE x

\* x if isinstance(x, str) and len(x) <= 15 else None
LengthGate(x) == IF x.t = "str" /\ Len(x.s) <= ISWC_MAX_LEN THEN x ELSE NoneV

\* the three passes over the ISWC column (lines 185-195)
IswcRule(x) == LengthGate(ApplyUniversalFilter(IF IsMultiline(x) THEN NoneV ELSE x))

\* intake ISWC cells: a run of digits, with or without blanks around it, a word in
\* front of it, a line break in it or after it; and cells that hold no text
IswcWords == {<<>>, <<"n","r","y">>, <<"O","J">>, <<"T","-">>}
IswcBreaks == {<<>>, <<"\n">>, <<"\r">>}
IswcCells ==
    {StrV(lead \o word \o [i \in 1..n |-> "1"] \o brk \o [i \in 1..m |-> "2"] \o trail) :
        lead \in {<<>>, <<" ">>}, word \in IswcWords, n \in 0..MaxIswcLen, brk \in IswcBreaks,
        m \in 0..1, trail \in {<<>>, <<" ">>, <<" ", " ">>}}
    \cup {NaNV, IntV(7), FloatV(7 * Unit)}

InitIswc ==
    /\ InitIdle
    /\ \E x \in IswcCells : fx = [fn |-> "iswc", arg |-> x, out |-> <<>>]

\* col_data.apply(...) of lines 187-195 on one cell
ApplyIswcRule ==
    /\ fx.fn = "iswc"
    /\ fx' = [fn |-> "gated", arg |-> fx.arg, out |-> <<IswcRule(fx.arg)>>]
    /\ UNCHANGED idle_vars

NextIswc == ApplyIswcRule

SpecIswc == InitIswc /\ [][NextIswc]_vars

-----------------------------------------------------------------------------
(* _map_capacity on its own *)

MaxCodeLen == 2

\* capacity cells: short codes in either case, with blanks; a word; cells without text
CodeChars == {"C", "A", "c", "a", "O", "P", "o", "p", "E", " "}
CapacityCells ==
    {StrV(s) : s \in SeqsUpTo(CodeChars, MaxCodeLen)}
    \cup {StrV(X_Arranger), StrV(T_OriginalPublisher), NaNV, NoneV, IntV(0), IntV(7)}

InitCapacity ==
    /\ InitIdle
    /\ \E cell \in CapacityCells, is_publisher \in BOOLEAN :
          fx = [fn |-> "capacity", arg |-> [cap_val |-> cell, is_publisher |-> is_publisher],
                out |-> <<>>]

\* _map_capacity(cap_val, is_publisher)
ApplyMapCapacity ==
    /\ fx.fn = "capacity"
    /\ fx' = [fn |-> "mapped", arg |-> fx.arg,
              out |-> <<MapCapacity(fx.arg.cap_val, fx.arg.is_publisher)>>]
    /\ UNCHANGED idle_vars

NextCapacity == ApplyMapCapacity

SpecCapacity == InitCapacity /\ [][NextCapacity]_vars

-----------------------------------------------------------------------------
(* What a run leaves in the workbook *)

WorksRows == wb[ws.works].rows
IpRows == wb[ws.ip].rows
AltRows == wb[ws.alt].rows

\* the columns of the IP Chain header that hold the Type of a participant
TypeColumns ==
    {c \in 1..Len(hdr.ip) : hdr.ip[c].live /\ Contains(hdr.ip[c].k, K_PARTICIPANT_)
                            /\ Contains(hdr.ip[c].k, K_TYPE)}

\* the participant slots of IP Chain row `at` that hold anything, and those of composers
PopulatedSlots(at) == Cardinality({c \in TypeColumns : Cell(IpRows, at, c).t # "none"})
ComposerSlots(at) == Cardinality({c \in TypeColumns : Cell(IpRows, at, c) = StrV(T_Composer)})

\* the ChainRows emitted for a work row, as positions in the log
ChainEntries(work) == {i \in 1..Len(log) : log[i].kind = "ip" /\ log[i].work = work}
AltEntries(work) == {i \in 1..Len(log) : log[i].kind = "alt" /\ log[i].work = work}

\* the composer slots of the ChainRows of a work row, from log entry i on
RECURSIVE SlotSumFrom(_, _)
SlotSumFrom(work, i) ==
    IF i > Len(log) THEN 0
    ELSE (IF i \in ChainEntries(work) THEN ComposerSlots(log[i].at) ELSE 0)
         + SlotSumFrom(work, i + 1)

\* the work rows the loop takes up: those with an ID
VisitedWorks == {w \in 2..Len(WorksRows) : Cell(WorksRows, w, hdr.col_work_id).t # "none"}

\* the intake row a work row is matched to, 0 if none
MatchOf(w) == DictGet(jot_row_lookup, Norm(Cell(WorksRows, w, hdr.col_foreign)), 0)

\* the number of participants an intake row declares, -1 when its Writer Total is no count
DeclaredTotal(row) ==
    LET v == RowGet(row, jcols.writer_total)
    IN CASE v.t = "int" /\ v.n >= 0 -> v.n
         [] v.t = "float" /\ v.n >= 0 /\ v.n % Unit = 0 -> v.n \div Unit
         [] OTHER -> 0 - 1

\* the column of an intake label
LabelCol(label) == IF \E c \in 1..Len(jot.cols) : jot.cols[c] = label
                   THEN CHOOSE c \in 1..Len(jot.cols) : jot.cols[c] = label ELSE 0

\* of the first k writers of an intake row, those whose publisher is a controlled one
ControlledAmong(row, k) ==
    Cardinality({i \in 1..k :
        IsPublisherControlled(StrOrEmpty(RowGet(row, LabelCol(Indexed(L_Publisher_, i, L_Name)))))})

\* the IP Chain sheet has the Type columns of the participants 1..k
HasSlots(k) == \A p \in 1..k : hdr.participant_cols[p].TYPE # 0

\* the work rows of a finished run that are matched to an intake row declaring a count
CountedWorks == {w \in VisitedWorks : MatchOf(w) # 0 /\ DeclaredTotal(jot.rows[MatchOf(w)]) >= 0}

AtMostOnePerGroup(w) ==
    /\ Cardinality({i \in ChainEntries(w) : log[i].type = "controlled"}) <= 1
    /\ Cardinality({i \in ChainEntries(w) : log[i].type = "other"}) <= 1

-----------------------------------------------------------------------------
(* C1 *)

\* C1, as claimed: for every work row matched to an intake row that declares N
\* participants, N >= 10 included, the composer slots of its ChainRows add up to N,
\* and each group has at most one ChainRow.
C1_PartitionToN ==
    pc = "done" =>
        \A w \in CountedWorks :
            LET N == DeclaredTotal(jot.rows[MatchOf(w)])
            IN HasSlots(Min(N, MaxParticipants - 1) + 1)
               => SlotSumFrom(w, 1) = N /\ AtMostOnePerGroup(w)

\* C1, amended: each group has at most one ChainRow; for N <= 9 the composer slots of
\* the ChainRows of the work add up to N; for N >= 10 only the first 10 writers are
\* extracted and a row holds at most 9 composers, so the slots add up to
\* min(c, 9) + min(10 - c, 9), c the controlled writers among the first 10.
C1_PartitionCapped ==
    pc = "done" =>
        \A w \in CountedWorks :
            LET N == DeclaredTotal(jot.rows[MatchOf(w)])
                c == ControlledAmong(jot.rows[MatchOf(w)], 10)
            IN HasSlots(Min(N, 9) + 1)
               => /\ AtMostOnePerGroup(w)
                  /\ N <= 9 => SlotSumFrom(w, 1) = N
                  /\ N >= 10 => SlotSumFrom(w, 1) = Min(c, 9) + Min(10 - c, 9)

\* a finished run whose work declares more than 10 writers, of both groups
C1_Witness ==
    /\ pc = "done"
    /\ \E w \in CountedWorks :
          /\ DeclaredTotal(jot.rows[MatchOf(w)]) > 10
          /\ Cardinality(ChainEntries(w)) = 2
          /\ SlotSumFrom(w, 1) = 10

-----------------------------------------------------------------------------
(* C2 *)

\* the slot-1 mechanical-owned cell of IP Chain row `at`
Slot1MechOwned(at) == Cell(IpRows, at, hdr.participant_cols[1].MECH_OWN)

\* the works with a controlled ChainRow at log entry a and an other ChainRow at b
BothRows(w, a, b) ==
    /\ a \in ChainEntries(w) /\ log[a].type = "controlled"
    /\ b \in ChainEntries(w) /\ log[b].type = "other"
    /\ hdr.participant_cols[1].MECH_OWN # 0

\* C2: when a work emits a controlled and an other ChainRow, the slot-1
\* mechanical-owned value of the other row is 100 minus that of the controlled row.
C2_Remainder ==
    \A a, b \in 1..Len(log) :
        BothRows(log[a].work, a, b)
        => /\ Slot1MechOwned(log[a].at).t = "float"
           /\ Slot1MechOwned(log[b].at).t = "float"
           /\ Slot1MechOwned(log[b].at).n = 100 * Unit - Slot1MechOwned(log[a].at).n

\* both rows written, the controlled one with a share of 60
C2_Witness ==
    \E a, b \in 1..Len(log) :
        /\ BothRows(log[a].work, a, b)
        /\ Slot1MechOwned(log[a].at) = FloatV(60 * Unit)
        /\ Slot1MechOwned(log[b].at) = FloatV(40 * Unit)

-----------------------------------------------------------------------------
(* C3 *)

\* C3: whatever the declared writer total, every emitted ChainRow has at most 10
\* populated participant slots, and writing the rows raises no error.
C3_CapEnforced ==
    /\ result # MsgKeyError
    /\ \A i \in 1..Len(log) : log[i].kind = "ip" => PopulatedSlots(log[i].at) <= 10

\* a finished run of a work declaring more than 10 writers, with a row of 10 slots
C3_Witness ==
    /\ pc = "done"
    /\ result = "ok"
    /\ \E w \in CountedWorks :
          /\ DeclaredTotal(jot.rows[MatchOf(w)]) > 10
          /\ \E i \in ChainEntries(w) : PopulatedSlots(log[i].at) = 10

-----------------------------------------------------------------------------
(* C4, C10 *)

\* the business key cell of intake row i, and its key
KeyOf(i) == RowGet(jot.rows[i], jcols.eep)
NonEmptyKey(i) == KeyOf(i).t \notin {"none", "nan"} /\ Norm(KeyOf(i)) # <<>>

\* the last intake row whose normalized key is k, 0 if none
LastWithKey(k) ==
    LET S == {i \in 1..Len(jot.rows) : KeyOf(i).t # "none" /\ Norm(KeyOf(i)) = k}
    IN IF S = {} THEN 0 ELSE SetMax(S)

\* the normalized Foreign ID and title of work row w
ForeignKey(w) == Norm(Cell(WorksRows, w, hdr.col_foreign))
TitleKey(w) == Norm(Cell(WorksRows, w, hdr.col_title))

\* the alternate titles intake row i gives, as they are to be written
IntakeAlts(i) ==
    LET a == RowGet(jot.rows[i], jcols.alt)
    IN IF i # 0 /\ a.t = "str"
       THEN [j \in 1..Len(AltList(a.s)) |-> StrV(TitleCase(Strip(AltList(a.s)[j])))]
       ELSE <<>>

\* the last intake row with key k, title t and alternate titles, 0 if none
LastWithAlts(t, k) ==
    LET S == {i \in 1..Len(jot.rows) :
                 /\ KeyOf(i).t # "none" /\ Norm(KeyOf(i)) = k
                 /\ RowGet(jot.rows[i], jcols.title).t # "none"
                 /\ Norm(RowGet(jot.rows[i], jcols.title)) = t /\ t # <<>>
                 /\ IntakeAlts(i) # <<>>}
    IN IF S = {} THEN 0 ELSE SetMax(S)

\* the Alternate Title cells written for work row w, in the order written
AltsOf(w) ==
    LET nth(j) == CHOOSE e \in AltEntries(w) :
                      Cardinality({e2 \in AltEntries(w) : e2 < e}) = j - 1
    IN [j \in 1..Cardinality(AltEntries(w)) |->
           Cell(AltRows, log[nth(j)].at, HeaderGet(hdr.alt, K_ALTERNATE_TITLE))]

\* the ChainRows of work row w are those of intake row i: they are derived from
\* it and hold as many composers as it declares (up to the 9 a row can hold)
ChainRowsFrom(w, i) ==
    /\ \A e \in ChainEntries(w) : log[e].src = i
    /\ LET N == DeclaredTotal(jot.rows[i])
       IN N \in 0..9 /\ HasSlots(N + 1) => SlotSumFrom(w, 1) = N

\* the target sheets have the columns the join is read from
JoinColumns == HasSlots(3) /\ HeaderGet(hdr.alt, K_ALTERNATE_TITLE) # 0

C10_LastRowWins ==
    /\ pc = "failed" => idx > Len(jot.rows)
    /\ pc \notin {"start", "index"} =>
          \A i \in 1..Len(jot.rows) :
              KeyOf(i).t # "none"
              => DictGet(jot_row_lookup, Norm(KeyOf(i)), 0) = LastWithKey(Norm(KeyOf(i)))
    /\ pc = "done" /\ HasSlots(3) =>
          \A w \in VisitedWorks :
              LastWithKey(ForeignKey(w)) # 0 => ChainRowsFrom(w, LastWithKey(ForeignKey(w)))

\* two intake rows with one normalized key and different writer totals, and a
\* ChainRow written from the second
C10_Witness ==
    /\ pc = "done"
    /\ HasSlots(3)
    /\ \E i, j \in 1..Len(jot.rows), e \in 1..Len(log) :
          /\ i < j
          /\ Norm(KeyOf(i)) = Norm(KeyOf(j))
          /\ DeclaredTotal(jot.rows[i]) # DeclaredTotal(jot.rows[j])
          /\ log[e].kind = "ip" /\ log[e].src = j
          /\ ForeignKey(log[e].work) = Norm(KeyOf(j))

-----------------------------------------------------------------------------
(* C5, C6 *)

\* the uploaded workbook has no sheet whose name holds the keyword / is the name
NoSheetWith(kw) == \A i \in 1..Len(curve) : ~Contains(Upper(curve[i].name), kw)
NoSheetNamed(name) == \A i \in 1..Len(curve) : Upper(curve[i].name) # Upper(name)
SheetMissing == NoSheetWith(K_WORK) \/ NoSheetWith(K_ALTERNATE) \/ NoSheetNamed(K_IP_CHAIN)

\* the labels of the work table: the first of the first ten rows of the works sheet
\* that holds anything
WorksLabelsGiven ==
    LET rows == curve[SetMin({i \in 1..Len(curve) : Contains(Upper(curve[i].name), K_WORK)})].rows
        filled == {i \in 1..Len(rows) : i <= 10 /\ \E c \in 1..Len(rows[i]) : rows[i][c].t # "none"}
    IN IF filled = {} THEN {}
       ELSE {Upper(Strip(PyStr(rows[SetMin(filled)][c]))) :
                c \in {c \in 1..Len(rows[SetMin(filled)]) : rows[SetMin(filled)][c].t # "none"}}

\* the work table has no column whose label holds all the words
NoColumnWith(words) ==
    \A l \in WorksLabelsGiven : \E k \in 1..Len(words) : ~Contains(l, words[k])

\* the message of the first structural error of the uploaded workbook, "none" if none
StructuralError ==
    IF NoSheetWith(K_WORK) THEN MsgNoWorks
    ELSE IF NoSheetWith(K_ALTERNATE) THEN MsgNoAlt
    ELSE IF NoSheetNamed(K_IP_CHAIN) THEN MsgNoIp
    ELSE IF NoColumnWith(<<K_ID>>) THEN MsgNoId
    ELSE IF NoColumnWith(<<K_FOREIGN, K_ID>>) THEN MsgNoForeign
    ELSE "none"

StructuralMsgs == {MsgNoWorks, MsgNoAlt, MsgNoIp, MsgNoId, MsgNoForeign}

C6_OptionalColumns ==
    pc \notin {"start", "index"} /\ StructuralError = "none"
    => /\ pc # "failed"
       /\ pc = "done" =>
             \A w \in CountedWorks :
                 LET N == DeclaredTotal(jot.rows[MatchOf(w)])
                 IN N \in 0..9 /\ HasSlots(N + 1) => SlotSumFrom(w, 1) = N

-----------------------------------------------------------------------------
(* C7 *)

\* the entries of the log for one target sheet
EntriesOf(kind) == {i \in 1..Len(log) : log[i].kind = kind}

\* a target sheet at the end of a run: rows, what was uploaded, its entries in the
\* log, its write cursor, its Work ID column
SinkProjected(rows, given, kind, cursor, id_col) ==
    LET n == Cardinality(EntriesOf(kind))
        w == Max(Width(rows), Width(given))
    IN /\ \A i \in 1..KeptRows, c \in 1..w : Cell(rows, i, c) = Cell(given, i, c)
       /\ Len(rows) = IF n = 0 THEN Min(Len(given), KeptRows) ELSE KeptRows + n
       /\ \A e \in EntriesOf(kind) :
             /\ log[e].at = KeptRows + Cardinality({e2 \in EntriesOf(kind) : e2 <= e})
             /\ id_col # 0 => Cell(rows, log[e].at, id_col)
                               = Cell(WorksRows, log[e].work, hdr.col_work_id)
       /\ \A i \in (KeptRows + 1)..Len(rows), c \in 1..w : Cell(rows, i, c) # StrV(X_Old)
       /\ cursor = KeptRows + 1 + n

\* C7: at the end of a successful run each target sheet is its first 2 rows as
\* uploaded, then the rows of this run at rows 3, 4, ... in the order the work rows
\* were visited, with nothing left of earlier rows; the write cursor has advanced by
\* one per row.
C7_SinkProjection ==
    pc = "done" =>
        /\ SinkProjected(AltRows, curve[ws.alt].rows, "alt", write_row_alt,
                         OrCol(HeaderGet(hdr.alt, K_WORK_ID), HeaderGet(hdr.alt, K_ID)))
        /\ SinkProjected(IpRows, curve[ws.ip].rows, "ip", write_row_ip,
                         WorkInfoColsOf(hdr.ip).id)
        /\ \A a, b \in 1..Len(log) : a < b => log[a].work <= log[b].work

\* a finished run that wrote to both target sheets over the rows of an earlier run
C7_Witness ==
    /\ pc = "done"
    /\ Len(curve[ws.alt].rows) = KeptRows + MaxOldRows
    /\ Len(curve[ws.ip].rows) = KeptRows + MaxOldRows
    /\ EntriesOf("alt") # {}
    /\ Cardinality(EntriesOf("ip")) = 2

-----------------------------------------------------------------------------
(* C8 *)

IsText(s) == \A i \in 1..Len(s) : s[i] \in STRING

\* C8: _norm gives a text for every value, _norm(_norm(x)) = _norm(x), and values
\* that differ only in letter case, in leading or trailing whitespace or in the
\* length of inner whitespace runs have one key.
C8_NormIdempotent ==
    /\ fx.fn \in {"normed", "renormed", "varied"} => IsText(fx.out[1])
    /\ fx.fn = "renormed" => fx.out[2] = fx.out[1]
    /\ fx.fn = "varied" => fx.out[3] = fx.out[1]

\* a text that _norm changes, normalized twice
C8_Witness ==
    /\ fx.fn = "renormed"
    /\ fx.arg.t = "str"
    /\ fx.out[1] # fx.arg.s
    /\ fx.out[1] # <<>>
    /\ fx.out[2] = fx.out[1]

-----------------------------------------------------------------------------
(* C9 *)

\* column c of the header matches keyword-set k
SetMatches(c, k) == AllWordsIn(ColU(fx.arg.cols[c]), fx.arg.patterns[k])
MatchedSets == {k \in 1..Len(fx.arg.patterns) : \E c \in 1..Len(fx.arg.cols) : SetMatches(c, k)}
MatchedColumns == {c \in 1..Len(fx.arg.cols) : \E k \in 1..Len(fx.arg.patterns) : SetMatches(c, k)}

\* C9, as claimed: the resolver returns the first column matching the
\* highest-priority keyword-set that any column matches, whatever the column order,
\* and not found iff no column matches any set.
C9_PriorityOrder ==
    fx.fn = "found" =>
        IF MatchedSets = {} THEN fx.out[1] = 0
        ELSE fx.out[1] = SetMin({c \in 1..Len(fx.arg.cols) : SetMatches(c, SetMin(MatchedSets))})

\* C9, amended: the resolver returns the first column, in column order, that matches
\* all keywords of any of the keyword-sets, and not found iff no column matches any.
C9_ColumnOrder ==
    fx.fn = "found" =>
        /\ fx.out[1] = 0 <=> MatchedColumns = {}
        /\ fx.out[1] # 0 => fx.out[1] \in MatchedColumns /\ \A c \in MatchedColumns : fx.out[1] <= c

\* a column matching only a later keyword-set stands before one matching an earlier
\* set, and is returned
C9_Witness ==
    /\ fx.fn = "found"
    /\ fx.out[1] # 0
    /\ \E c \in MatchedColumns, k \in MatchedSets :
          /\ fx.out[1] < c
          /\ SetMatches(c, k)
          /\ \A j \in 1..k : ~SetMatches(fx.out[1], j)

-----------------------------------------------------------------------------
(* C11 *)

\* the alternate titles an intake cell stands for: its non-empty trimmed lines, in
\* order, title-cased
ExpectedAlts(cell) ==
    CASE cell = StrV(X_FooBar) -> <<StrV(<<"F","o","o">>), StrV(<<"B","a","r">>)>>
      [] cell = StrV(X_Baz) -> <<StrV(<<"B","a","z">>)>>
      [] cell = StrV(X_Qux) -> <<StrV(<<"Q","u","x">>)>>
      [] cell = StrV(X_TwoLines) -> <<StrV(<<"T","w","o"," ","W","o","r","d","s">>), StrV(<<"O","'","N","e","i","l">>)>>
      [] OTHER -> <<>>

\* the alternate-title cell of intake row i
AltCell(i) == RowGet(jot.rows[i], jcols.alt)

\* intake row i has the normalized title and the normalized key of work row w
SamePair(w, i) ==
    /\ Norm(RowGet(jot.rows[i], jcols.title)) = TitleKey(w)
    /\ Norm(KeyOf(i)) = ForeignKey(w)

\* the last intake row with the pair of work row w and lines in its alternate-title
\* cell, 0 if none
LastPairWithLines(w) ==
    LET S == {i \in 1..Len(jot.rows) :
                 KeyOf(i).t # "none" /\ SamePair(w, i) /\ ExpectedAlts(AltCell(i)) # <<>>}
    IN IF S = {} THEN 0 ELSE SetMax(S)

AltColumnGiven == HeaderGet(hdr.alt, K_ALTERNATE_TITLE) # 0

\* C11, as claimed: a work row with the normalized title and key of an intake row
\* gets one AltTitleRow per non-empty trimmed line of that row's alternate-title
\* cell, in order, title-cased; with no such row, or an empty cell, none.
C11_AltTitlesEveryRow ==
    pc = "done" /\ AltColumnGiven =>
        \A w \in VisitedWorks :
            /\ \A i \in 1..Len(jot.rows) :
                  SamePair(w, i) => AltsOf(w) = ExpectedAlts(AltCell(i))
            /\ (\A i \in 1..Len(jot.rows) : ~SamePair(w, i)) => AltEntries(w) = {}

\* C11, amended: a work row with a non-empty normalized title gets the AltTitleRows
\* of the last intake row that has its normalized title and key and a non-empty
\* alternate-title cell: one per non-empty trimmed line, in order, title-cased; a
\* work row with an empty normalized title, or with no such intake row, gets none.
C11_AltTitlesLastRow ==
    pc = "done" /\ AltColumnGiven =>
        \A w \in VisitedWorks :
            AltsOf(w) = IF TitleKey(w) # <<>> /\ LastPairWithLines(w) # 0
                        THEN ExpectedAlts(AltCell(LastPairWithLines(w)))
                        ELSE <<>>

\* a work whose intake row holds two lines padded with blanks and a carriage return,
\* written as two title-cased rows
C11_Witness ==
    /\ pc = "done"
    /\ AltColumnGiven
    /\ \E w \in VisitedWorks :
          /\ LastPairWithLines(w) # 0
          /\ AltCell(LastPairWithLines(w)) = StrV(X_TwoLines)
          /\ Len(AltsOf(w)) = 2
          /\ Cardinality(AltEntries(w)) = 2

-----------------------------------------------------------------------------
(* C12 *)

\* the publisher names that hold an in-house fragment, the markers that say yes
InHouseNames == {StrV(X_ElitePub), StrV(X_EmbassiesPub)}
YesMarkers == {StrV(<<"Y">>), StrV(<<" ", "y">>)}

\* the first name of writer i
FlagFirst(i) == <<"W">> \o IntStr(i)

\* the writers of a chain by row: type and first names
PartitionOf(chain) == [k \in 1..Len(chain) |-> [type |-> chain[k].type, who |-> chain[k].who]]

\* writer i stands in a row of the given type, and only there
PlacedIn(chain, i, type) ==
    /\ \E k \in 1..Len(chain) : \E j \in 1..Len(chain[k].who) :
          chain[k].type = type /\ chain[k].who[j] = FlagFirst(i)
    /\ \A k \in 1..Len(chain) : \A j \in 1..Len(chain[k].who) :
          chain[k].who[j] = FlagFirst(i) => chain[k].type = type

\* the Controlled values written for writer i of the chain
ControlledWritten(chain, i) ==
    LET at == {kn \in (1..Len(chain)) \X (1..(12 * MaxParticipants)) :
                 /\ kn[2] <= Len(chain[kn[1]].writes)
                 /\ \E j \in 1..Len(chain[kn[1]].who) :
                       /\ chain[kn[1]].who[j] = FlagFirst(i)
                       /\ chain[kn[1]].writes[kn[2]].c = FlagPCols[j + 1].CONTROLLED}
    IN {chain[kn[1]].writes[kn[2]].v : kn \in at}

\* C12: the row a writer is placed in follows from its publisher name alone, the
\* Controlled value of its composer slot from its Y/N marker alone; two intake rows
\* that differ only in Y/N markers are partitioned alike.
C12_FlagsIndependent ==
    fx.fn = "grouped" =>
        /\ PartitionOf(fx.out[1]) = PartitionOf(fx.out[2])
        /\ \A i \in 1..Len(fx.arg.names) :
              /\ PlacedIn(fx.out[1], i,
                          IF fx.arg.names[i] \in InHouseNames THEN "controlled" ELSE "other")
              /\ ControlledWritten(fx.out[1], i) = {BoolV(fx.arg.markers[i] \in YesMarkers)}
              /\ ControlledWritten(fx.out[2], i) = {BoolV(fx.arg.others[i] \in YesMarkers)}

\* an in-house writer marked N and another publisher's writer marked Y, and the same
\* two with the markers exchanged
C12_Witness ==
    /\ fx.fn = "grouped"
    /\ \E i, j \in 1..Len(fx.arg.names) :
          /\ fx.arg.names[i] \in InHouseNames /\ fx.arg.markers[i] \notin YesMarkers
          /\ fx.arg.others[i] \in YesMarkers
          /\ fx.arg.names[j] \notin InHouseNames /\ fx.arg.markers[j] \in YesMarkers
          /\ fx.arg.others[j] \notin YesMarkers
          /\ PlacedIn(fx.out[1], i, "controlled") /\ PlacedIn(fx.out[1], j, "other")
          /\ PlacedIn(fx.out[2], i, "controlled") /\ PlacedIn(fx.out[2], j, "other")

-----------------------------------------------------------------------------
(* C13 *)

\* the ownership share an intake cell stands for, in units: a percentage, a fraction
\* of one, or 0.0 for a missing cell
ExpectedShare(cell) ==
    CASE cell = StrV(<<"5","0">>) -> 50 * Unit
      [] cell = FloatV(Unit \div 2) -> 50 * Unit
      [] cell = StrV(<<"1","0","0","%">>) -> 100 * Unit
      [] cell = IntV(0) -> 0
      [] OTHER -> 0

\* the writers of intake row i that are extracted, and those of them in a group
ExtractedOf(i) == 1..ExtractedCount(WriterTotal(jot.rows[i], jcols.writer_total))
PublisherNameOf(i, k) == StrOrEmpty(RowGet(jot.rows[i], LabelCol(Indexed(L_Publisher_, k, L_Name))))
GroupOf(i, type) ==
    {k \in ExtractedOf(i) : IsPublisherControlled(PublisherNameOf(i, k)) = (type = "controlled")}

\* the j-th writer of a group of intake row i
GroupMember(i, type, j) ==
    CHOOSE k \in GroupOf(i, type) : Cardinality({k2 \in GroupOf(i, type) : k2 <= k}) = j

\* the share cell of writer k of intake row i
ShareCell(i, k) == RowGet(jot.rows[i], LabelCol(Indexed(L_Composer_, k, L_Share)))

\* v is the number that is half of `units`
IsHalfOf(v, units) == v.t = "float" /\ v.n * 2 = units

\* the publisher slot of IP Chain row `at`: both performance values are half the
\* mechanical-owned value
PublisherHalved(at) ==
    LET p == hdr.participant_cols[1]
    IN p.MECH_OWN # 0 /\ p.PERF_OWN # 0 /\ p.PERF_COLL # 0
       => /\ Cell(IpRows, at, p.MECH_OWN).t = "float"
          /\ IsHalfOf(Cell(IpRows, at, p.PERF_OWN), Cell(IpRows, at, p.MECH_OWN).n)
          /\ IsHalfOf(Cell(IpRows, at, p.PERF_COLL), Cell(IpRows, at, p.MECH_OWN).n)

\* composer j of the row at log entry e: both performance values are half the
\* share, both mechanical values are 0
ComposerHalved(e, j) ==
    LET p == hdr.participant_cols[j + 1]
        share == ExpectedShare(ShareCell(log[e].src, GroupMember(log[e].src, log[e].type, j)))
    IN /\ p.PERF_OWN # 0 => IsHalfOf(Cell(IpRows, log[e].at, p.PERF_OWN), share)
       /\ p.PERF_COLL # 0 => IsHalfOf(Cell(IpRows, log[e].at, p.PERF_COLL), share)
       /\ p.MECH_OWN # 0 => Cell(IpRows, log[e].at, p.MECH_OWN) = IntV(0)
       /\ p.MECH_COLL # 0 => Cell(IpRows, log[e].at, p.MECH_COLL) = IntV(0)

\* C13: in every emitted ChainRow the publisher slot's performance-owned and
\* performance-collected values are half its mechanical-owned value, every composer
\* slot's are half that composer's ownership share, and every composer slot's
\* mechanical values are 0.
C13_PerformanceHalved ==
    \A e \in 1..Len(log) :
        log[e].kind = "ip" =>
            /\ PublisherHalved(log[e].at)
            /\ \A j \in 1..Min(Cardinality(GroupOf(log[e].src, log[e].type)), MaxParticipants - 1) :
                  ComposerHalved(e, j)

\* the same for the composers whose share cell is filled
FilledSharesHalved ==
    \A e \in 1..Len(log) :
        log[e].kind = "ip" =>
            /\ PublisherHalved(log[e].at)
            /\ \A j \in 1..Min(Cardinality(GroupOf(log[e].src, log[e].type)), MaxParticipants - 1) :
                  ShareCell(log[e].src, GroupMember(log[e].src, log[e].type, j)).t # "nan"
                  => ComposerHalved(e, j)

-----------------------------------------------------------------------------
(* C14 *)

HasExclusion(s) == \E e \in 1..Len(EXCLUSIONS_LIST) : Contains(Upper(s), EXCLUSIONS_LIST[e])
HasLineBreak(s) == \E i \in 1..Len(s) : s[i] \in {"\n", "\r"}

\* C14: the destination ISWC is empty when the intake text is multi-line, holds an
\* exclusion token, or is longer than 15 characters once trimmed; any other text is
\* written, as it is.
C14_IswcGate ==
    fx.fn = "gated" /\ fx.arg.t = "str" =>
        IF HasLineBreak(fx.arg.s) \/ HasExclusion(fx.arg.s) \/ Len(Strip(fx.arg.s)) > 15
        THEN fx.out[1] = NoneV
        ELSE fx.out[1] = fx.arg

\* the same with the length taken of the text as it is
IswcGateUntrimmed ==
    fx.fn = "gated" /\ fx.arg.t = "str" =>
        IF HasLineBreak(fx.arg.s) \/ HasExclusion(fx.arg.s) \/ Len(fx.arg.s) > 15
        THEN fx.out[1] = NoneV
        ELSE fx.out[1] = fx.arg

-----------------------------------------------------------------------------
(* C15 *)

\* a cell of writer k of intake row i, by the label of its column
WriterCell(i, k, prefix, field) == RowGet(jot.rows[i], LabelCol(Indexed(prefix, k, field)))

\* the text a name cell is written as
NameText(cell) == IF cell.t = "str" THEN cell.s ELSE <<"n","a","n">>

\* the capacity label of a publisher capacity code
PublisherCapacity(cell) ==
    CASE cell = StrV(<<"O","P">>) -> T_OriginalPublisher
      [] cell = StrV(<<"o","p"," ">>) -> T_OriginalPublisher
      [] cell = StrV(<<"E">>) -> <<"E">>
      [] OTHER -> <<"N","A","N">>

\* the mechanical value of the Elite share cell of an intake row, in units: all its
\* participants have this one
MechOfRow(i) ==
    LET cell == RowGet(jot.rows[i], LabelCol(L_EliteShare))
    IN CASE cell = StrV(<<"6","0","%">>) -> 60 * Unit
         [] cell = FloatV(25 * Unit) -> 25 * Unit
         [] cell = StrV(<<"1","5","0","%">>) -> 150 * Unit
         [] OTHER -> 0

\* a cell of IP Chain row `at`, TRUE when the column is not in the sheet
CellIs(at, col, v) == col # 0 => Cell(IpRows, at, col) = v

\* slot 1 of the row at log entry e
SlotOneSynthesized(e) ==
    LET p == hdr.participant_cols[1]
        i == log[e].src
        k == GroupMember(i, "controlled", 1)
    IN /\ CellIs(log[e].at, p.TYPE, StrV(T_Publisher))
       /\ IF log[e].type = "controlled"
          THEN /\ CellIs(log[e].at, p.NAME, StrV(NameText(WriterCell(i, k, L_Publisher_, L_Name))))
               /\ CellIs(log[e].at, p.CAE, WriterCell(i, k, L_Publisher_, L_Cae))
               /\ CellIs(log[e].at, p.CAPACITY,
                         StrV(PublisherCapacity(WriterCell(i, k, L_Publisher_, L_Capacity))))
               /\ CellIs(log[e].at, p.CONTROLLED, BoolV(TRUE))
               /\ CellIs(log[e].at, p.MECH_OWN, FloatV(MechOfRow(i)))
          ELSE /\ CellIs(log[e].at, p.NAME, StrV(T_CopyrightControl))
               /\ CellIs(log[e].at, p.CAE, StrV(T_ZeroCae))
               /\ CellIs(log[e].at, p.CAPACITY, StrV(T_OriginalPublisher))
               /\ CellIs(log[e].at, p.CONTROLLED, BoolV(FALSE))

\* slot j + 1 of the row at log entry e holds the j-th writer of its group
ComposerInOrder(e, j) ==
    LET p == hdr.participant_cols[j + 1]
        i == log[e].src
        k == GroupMember(i, log[e].type, j)
    IN /\ CellIs(log[e].at, p.TYPE, StrV(T_Composer))
       /\ CellIs(log[e].at, p.FIRST, StrV(NameText(WriterCell(i, k, L_Composer_, L_FirstName))))
       /\ CellIs(log[e].at, p.SURNAME, StrV(NameText(WriterCell(i, k, L_Composer_, L_LastName))))
       /\ CellIs(log[e].at, p.CAE, WriterCell(i, k, L_Composer_, L_Cae))

\* C15: the controlled ChainRow of a work is written before its other ChainRow; slot
\* 1 of every ChainRow is a Publisher and slots 2.. are Composers in the intake
\* order of the group; slot 1 of the controlled row carries the publisher name, CAE
\* and capacity of the first controlled participant with the controlled mechanical
\* value, slot 1 of the other row is Copyright Control, 00000000000, Original
\* Publisher, not controlled.
C15_RowOrderAndSlotOne ==
    /\ \A a, b \in 1..Len(log) :
          /\ log[a].kind = "ip" /\ log[b].kind = "ip" /\ log[a].work = log[b].work
          /\ log[a].type = "controlled" /\ log[b].type = "other"
          => a < b /\ log[a].at < log[b].at
    /\ \A e \in 1..Len(log) :
          log[e].kind = "ip" =>
              /\ SlotOneSynthesized(e)
              /\ \A j \in 1..Min(Cardinality(GroupOf(log[e].src, log[e].type)), MaxParticipants - 1) :
                    ComposerInOrder(e, j)

\* a work with two controlled writers of different names and two others, in two rows
C15_Witness ==
    \E a, b \in 1..Len(log) :
        /\ log[a].kind = "ip" /\ log[b].kind = "ip" /\ log[a].work = log[b].work
        /\ log[a].type = "controlled" /\ log[b].type = "other"
        /\ Cell(IpRows, log[a].at, hdr.participant_cols[2].FIRST) = StrV(X_Ann)
        /\ Cell(IpRows, log[a].at, hdr.participant_cols[3].FIRST) = StrV(X_Bob)
        /\ Cell(IpRows, log[b].at, hdr.participant_cols[2].SURNAME) = StrV(X_Ray)
        /\ Cell(IpRows, log[b].at, hdr.participant_cols[1].NAME) = StrV(T_CopyrightControl)
        /\ Cell(IpRows, log[a].at, hdr.participant_cols[1].MECH_OWN) = FloatV(60 * Unit)

-----------------------------------------------------------------------------
(* C16 *)

\* the label of a recognized code (trimmed, in capitals), <<>> for any other
CodeLabel(code, is_publisher) ==
    IF is_publisher
    THEN (IF code = <<"O","P">> THEN <<"O","r","i","g","i","n","a","l"," ",
                                       "P","u","b","l","i","s","h","e","r">> ELSE <<>>)
    ELSE CASE code = <<"C">> -> <<"C","o","m","p","o","s","e","r">>
           [] code = <<"A">> -> <<"L","y","r","i","c","s">>
           [] code \in {<<"A","C">>, <<"C","A">>} ->
                 <<"L","y","r","i","c","s"," ","a","n","d"," ","M","u","s","i","c">>
           [] OTHER -> <<>>

\* C16: a recognized capacity code is written as its label, any other code as the
\* text of the intake cell, unchanged.
C16_CapacityPassThrough ==
    fx.fn = "mapped" /\ fx.arg.cap_val.t = "str" /\ fx.arg.cap_val.s # <<>> =>
        LET label == CodeLabel(Upper(Strip(fx.arg.cap_val.s)), fx.arg.is_publisher)
        IN fx.out[1] = IF label # <<>> THEN label ELSE fx.arg.cap_val.s

\* the same with any other code written trimmed and in capitals
CapacityInCapitals ==
    fx.fn = "mapped" /\ fx.arg.cap_val.t = "str" /\ fx.arg.cap_val.s # <<>> =>
        LET label == CodeLabel(Upper(Strip(fx.arg.cap_val.s)), fx.arg.is_publisher)
        IN fx.out[1] = IF label # <<>> THEN label ELSE Upper(Strip(fx.arg.cap_val.s))

-----------------------------------------------------------------------------
(* C17 *)

\* the intake table has no column that resolves to the business key
NoKeyColumn ==
    \A c \in 1..Len(jot.cols) :
        ~\E k \in 1..Len(EepPatterns) : AllWordsIn(ColU(jot.cols[c]), EepPatterns[k])

\* C17: an intake table without a business-key column makes the run abort with an
\* error, before any row of a target sheet is cleared or written.
C17_MissingKeyColumnFatal ==
    NoKeyColumn =>
        /\ pc # "done"
        /\ wb = <<>> \/ wb = curve

\* what the run does instead: it ends well, the target sheets cleared, nothing written
NoKeyColumnRunsEmpty ==
    NoKeyColumn /\ pc = "done" =>
        /\ result = "ok"
        /\ log = <<>>
        /\ Len(AltRows) <= KeptRows /\ Len(IpRows) <= KeptRows

-----------------------------------------------------------------------------
(* C18 *)

\* the Foreign ID cell of work row w is empty
EmptyForeignId(w) == Cell(WorksRows, w, hdr.col_foreign).t = "none"

\* C18: a work row whose Foreign ID cell is empty emits no ChainRow and no
\* AltTitleRow, whatever the intake table holds.
C18_EmptyKeyNeverJoins ==
    \A e \in 1..Len(log) : ~EmptyForeignId(log[e].work)

\* what is emitted for such a work row comes from an intake row whose business-key
\* cell is empty or blank
EmptyKeyJoinsEmptyKey ==
    \A e \in 1..Len(log) :
        EmptyForeignId(log[e].work) /\ log[e].kind = "ip" => Norm(KeyOf(log[e].src)) = <<>>

-----------------------------------------------------------------------------
(* C19 *)

\* the row of a sheet, as uploaded, that the headers are taken from, 0 if none
GivenHeaderRow(sheet) == HeaderRowIndex(curve[sheet].rows)

\* the target sheets are cleared and nothing is written yet
JustCleared == pc \in {"loop", "chain", "alt", "done"} /\ log = <<>>

\* the header row of a target sheet is still in the sheet
HeaderRowKept(sheet) ==
    GivenHeaderRow(sheet) # 0 =>
        /\ GivenHeaderRow(sheet) <= Len(wb[sheet].rows)
        /\ wb[sheet].rows[GivenHeaderRow(sheet)] = curve[sheet].rows[GivenHeaderRow(sheet)]

\* the header row of the works sheet emits nothing
WorksHeaderEmitsNothing ==
    ws # NoWs => \A e \in 1..Len(log) : log[e].work # GivenHeaderRow(ws.works)

\* the header rows of the two target sheets outlive the clearing
TargetHeadersKept == JustCleared => HeaderRowKept(ws.alt) /\ HeaderRowKept(ws.ip)

\* C19: the header row of the work table, wherever in rows 1..10 it stands, emits no
\* ChainRow and no AltTitleRow; the header rows of the Alternate Titles and IP Chain
\* sheets are not deleted by the clearing step.
C19_HeaderRowsNotData == WorksHeaderEmitsNothing /\ TargetHeadersKept

\* a header in row 1 of the works sheet emits nothing
WorksHeaderInRowOneSkipped ==
    ws # NoWs /\ GivenHeaderRow(ws.works) = 1 => WorksHeaderEmitsNothing

\* a header within the rows the clearing keeps is still there afterwards
HeaderInKeptRowsStays ==
    JustCleared =>
        /\ GivenHeaderRow(ws.alt) <= KeptRows => HeaderRowKept(ws.alt)
        /\ GivenHeaderRow(ws.ip) <= KeptRows => HeaderRowKept(ws.ip)

-----------------------------------------------------------------------------
(* C20 *)

\* the four percentage columns of slot 1 that the IP Chain sheet has
SlotOnePercentCols ==
    LET p == hdr.participant_cols[1]
    IN {p.MECH_OWN, p.MECH_COLL, p.PERF_OWN, p.PERF_COLL} \ {0}

\* v is a number within 0..100
IsPercentage(v) == v.t = "float" /\ 0 <= v.n /\ v.n <= 100 * Unit

\* the Elite-share number of the intake row behind log entry e is within 0..100
ShareInRange(e) == MechOfRow(log[e].src) <= 100 * Unit

InRangeShareGivesPercentages ==
    \A e \in 1..Len(log) :
        log[e].kind = "ip" /\ ShareInRange(e) =>
            \A col \in SlotOnePercentCols : IsPercentage(Cell(IpRows, log[e].at, col))

====
